---- MODULE Spec2Model ----
(***************************************************************************)
(* NetInsight, scripts/detect_bad_intervals.py: rolling-window baseline,   *)
(* bad-window flagging, merging of bad windows into intervals.             *)
(*                                                                         *)
(* Units.  Timestamps are whole seconds.  Scores, percentages and every    *)
(* value the code rounds to two decimals are kept in hundredths (9500 is   *)
(* 95.00), so the code's round(x, 2) is an integer rounding here.          *)
(* A run of rows that share timestamp, score, tier and service is kept as  *)
(* one batch record with its row count n.                                  *)
(***************************************************************************)
EXTENDS Integers, Sequences, FiniteSets, TLC

\* ---------------------------------------------------------------- constants
WINDOW_MINUTES == 5
STEP_MINUTES == 1
MIN_SAMPLES == 30
\* Thresholds in hundredths: K_STD 1.0, SEV_2_Z -1.5, BAD_PCT_THRESHOLD 50.0, ...
K_STD == 100
BAD_PCT_THRESHOLD == 5000
SEV_1_Z == -100
SEV_2_Z == -150
SEV_3_Z == -200
SEV_1_BAD_PCT == 5000
SEV_2_BAD_PCT == 6000
SEV_3_BAD_PCT == 8000
NETWORK_WIDE_MIN_AFFECTED_SERVICES == 8
SecondsPerMinute == 60
Cent == 100

WindowSec == WINDOW_MINUTES * SecondsPerMinute
StepSec == STEP_MINUTES * SecondsPerMinute

\* ------------------------------------------------------------------- bounds
\* Largest number of batches in the input table.
MaxBatches == 2
\* Largest number of rows of a drawn window table.
MaxWindows == 3

\* Timestamps of the input rows, in seconds.
Timestamps == {0, 30, 60, 120, 300}
\* Row counts of a batch.
BatchSizes == {15, 30}
\* Row scores, in hundredths.
Scores == {1000, 9400}
\* Service names, in the alphabetical order groupby puts them in.
ServiceOrder == <<"discord", "gateway", "github", "google", "home-gateway",
                  "netflix", "spotify", "twitch", "youtube">>
\* Service names of the rows of the input tables.
Services == {"gateway", "youtube"}
\* The names that end in "gateway"
GatewaySuffixed == {"gateway", "home-gateway"}

VARIABLES
    in_file,      \* content of IN_PATH (quality_rows.csv)
    df,           \* main: the scored rows (quality_rows.csv), as batches
    pc,           \* position in main / build_window_table / merge_bad_windows
    tmp,          \* build_window_table: the rolling aggregates, one per batch
    sampled,      \* build_window_table: the resampled, non-null rows
    windows,      \* main: the window table
    global_mean,  \* main: mean of the windows' mean_score, as num/den
    global_std,   \* main: population std of the windows' mean_score
    bad,          \* merge_bad_windows: the bad windows by window_start
    loop_i,       \* merge_bad_windows: the loop's i, as a 1-based index into bad
    cur,          \* merge_bad_windows: the open interval's locals
    intervals,    \* merge_bad_windows / main: the interval table
    out_file,     \* content of OUT_PATH
    error,        \* detect_bad_intervals.main: the exception that ended the run
    probe_row,    \* quality_score: the log row being scored
    probe_score,  \* quality_score: the score computed for probe_row
    run_services, \* run_once: the services argument
    gateway_override, \* run_once: the gateway_override argument
    probe_calls,  \* the calls run_once has made to run_ping, run_dns, run_http
    run_pos,      \* run_once: 1-based position of the for loop in run_services
    run_rows,     \* run_once: the local list rows
    log_file,     \* content of log_path
    summary,      \* run_once: the returned dict
    gw_call,      \* persist_gateway: the arguments of the call
    targets_module, \* GATEWAY_HOSTNAME and SERVICES of the module targets_config
    targets_file, \* content of targets_file_path
    original,     \* persist_gateway: the local original
    gw_ret,       \* persist_gateway: the returned value
    svc_df,       \* detect_downtimes_for_service: the service's ping rows
    row_pos,      \* detect_downtimes_for_service: 1-based position of the for loop
    current_start,   \* detect_downtimes_for_service: local
    last_failure_ts, \* detect_downtimes_for_service: local
    fail_count,   \* detect_downtimes_for_service: local
    events        \* detect_downtimes_for_service: the list events

vars == <<in_file, df, pc, tmp, sampled, windows, global_mean, global_std,
          bad, loop_i, cur, intervals, out_file, error,
          probe_row, probe_score,
          run_services, gateway_override, probe_calls, run_pos, run_rows, log_file, summary,
          gw_call, targets_module, targets_file, original, gw_ret,
          svc_df, row_pos, current_start, last_failure_ts, fail_count, events>>

scoreVars == <<probe_row, probe_score>>
runVars == <<run_services, gateway_override, probe_calls, run_pos, run_rows, log_file, summary>>
gwVars == <<gw_call, targets_module, targets_file, original, gw_ret>>
\* The variables of the programs other than detect_bad_intervals
downVars == <<svc_df, row_pos, current_start, last_failure_ts, fail_count, events>>
otherVars == <<scoreVars, runVars, gwVars, downVars>>

buildVars == <<tmp, sampled>>
statVars == <<global_mean, global_std>>
mergeVars == <<bad, loop_i, cur>>

\* ------------------------------------------------------------------ helpers
RECURSIVE SumSeq(_, _)
\* Sum of F[k] over k in 1..n
SumSeq(F, n) == IF n = 0 THEN 0 ELSE F[n] + SumSeq(F, n - 1)

\* round(num/den) to the nearest integer, ties to even (numpy/Python round)
RoundHalfEven(num, den) ==
    LET q == num \div den
        r == num % den
    IN  IF 2 * r < den THEN q
        ELSE IF 2 * r > den THEN q + 1
        ELSE IF q % 2 = 0 THEN q ELSE q + 1

\* quality_score.tier_from_score, score in hundredths
tier_from_score(score) ==
    IF score >= 80 * Cent THEN "good"
    ELSE IF score >= 50 * Cent THEN "ok"
    ELSE "bad"

\* ------------------------------------------------------------------- input
Batch(t, n, s, svc) ==
    [timestamp |-> t, n |-> n, score |-> s, tier |-> tier_from_score(s),
     service_name |-> svc]

Batches == {Batch(t, n, s, svc) : t \in Timestamps, n \in BatchSizes,
                                  s \in Scores, svc \in Services}

InputTables == UNION {[1..k -> Batches] : k \in 0..MaxBatches}

\* -------------------------------------------------- main: reading the input
\* A file: whether it exists, and the rows it holds (the header line is left out)
FileWith(rows) == [exists |-> TRUE, rows |-> rows]
NoFile == [exists |-> FALSE, rows |-> <<>>]
\* An exception: its type, the function that raised it, the names its
\* message lists
Raised(type, raised_by, names) == [type |-> type, raised_by |-> raised_by, names |-> names]
NoError == Raised("none", "", {})
Idle == "idle"
\* targets_config with no gateway and no services
NoModule == [GATEWAY_HOSTNAME |-> "null", SERVICES |-> <<>>]

\* The other programs are not running
ScoreIdle ==
    /\ probe_row = Idle
    /\ probe_score = Idle

RunIdle ==
    /\ run_services = <<>>
    /\ gateway_override = ""
    /\ probe_calls = <<>>
    /\ run_pos = 0
    /\ run_rows = <<>>
    /\ log_file = NoFile
    /\ summary = Idle

GwIdle ==
    /\ gw_call = Idle
    /\ targets_module = NoModule
    /\ targets_file = NoFile
    /\ original = Idle
    /\ gw_ret = Idle

\* None for a timestamp
NoTs == -1

DownIdle ==
    /\ svc_df = <<>>
    /\ row_pos = 0
    /\ current_start = NoTs
    /\ last_failure_ts = NoTs
    /\ fail_count = 0
    /\ events = <<>>

OthersIdle == ScoreIdle /\ RunIdle /\ GwIdle /\ DownIdle

\* Line 325
required == {"timestamp", "score", "tier"}
AllColumns == required \cup {"service_name"}

\* A cell of the timestamp column: a text that is a date-time (of second t)
\* or is not
TimeCell(iso, t) == [iso |-> iso, t |-> t]
\* A cell of the score column: a text that is a number (v hundredths) or is not
ScoreCell(numeric, v) == [numeric |-> numeric, v |-> v]

\* The well-formed file that holds the rows t
FileOf(t) ==
    [exists |-> TRUE, columns |-> AllColumns,
     rows |-> [k \in 1..Len(t) |->
                 [timestamp |-> TimeCell(TRUE, t[k].timestamp), n |-> t[k].n,
                  score |-> ScoreCell(TRUE, t[k].score), tier |-> t[k].tier,
                  service_name |-> t[k].service_name]]]

\* ensure_tz on one cell: pd.to_datetime(errors="coerce") gives NaT for a
\* text that is no date-time
ensure_tz(cell) == IF cell.iso THEN [isna |-> FALSE, v |-> cell.t] ELSE [isna |-> TRUE, v |-> 0]

\* pd.to_numeric(errors="coerce") on one cell: NaN for a text that is no number
to_numeric(cell) == IF cell.numeric THEN [isna |-> FALSE, v |-> cell.v] ELSE [isna |-> TRUE, v |-> 0]

RECURSIVE DropNaRows(_, _)
\* dropna(subset=[col]): the rows whose col is not NaT / NaN, in order
DropNaRows(rows, col) ==
    IF rows = <<>> THEN <<>>
    ELSE LET rest == DropNaRows(SubSeq(rows, 1, Len(rows) - 1), col)
             last == rows[Len(rows)]
         IN  IF last[col].isna THEN rest ELSE Append(rest, last)

\* Lines 330-334 on the rows of the frame
Coerced(rows) ==
    LET stamped == DropNaRows([k \in 1..Len(rows) |->
                                  [rows[k] EXCEPT !.timestamp = ensure_tz(@)]],
                              "timestamp")
        scored == DropNaRows([k \in 1..Len(stamped) |->
                                 [stamped[k] EXCEPT !.score = to_numeric(@)]],
                             "score")
    IN  [k \in 1..Len(scored) |->
            [scored[k] EXCEPT !.timestamp = @.v, !.score = @.v]]

\* main lines 320-328: the file is read and its columns are checked
ReadCsv ==
    /\ pc = "read"
    /\ IF ~in_file.exists
       THEN /\ error' = Raised("FileNotFoundError", "main", {})
            /\ pc' = "raised"
            /\ UNCHANGED df
       ELSE IF required \ in_file.columns # {}
       THEN /\ error' = Raised("ValueError", "main", required \ in_file.columns)
            /\ pc' = "raised"
            /\ UNCHANGED df
       ELSE /\ df' = in_file.rows
            /\ pc' = "coerce"
            /\ UNCHANGED error
    /\ UNCHANGED <<in_file, buildVars, windows, statVars, mergeVars, intervals, out_file>>
    /\ UNCHANGED otherVars

\* main lines 330-334: timestamps and scores are parsed, rows without a
\* valid timestamp or score are dropped
CoerceRows ==
    /\ pc = "coerce"
    /\ df' = Coerced(df)
    /\ pc' = "start"
    /\ UNCHANGED <<in_file, buildVars, windows, statVars, mergeVars, intervals, out_file>>
    /\ UNCHANGED <<error, otherVars>>

\* ------------------------------------------------------- build_window_table
RECURSIVE InsertSorted(_, _)
InsertSorted(s, x) ==
    IF s = <<>> THEN <<x>>
    ELSE IF s[Len(s)].timestamp <= x.timestamp THEN Append(s, x)
    ELSE Append(InsertSorted(SubSeq(s, 1, Len(s) - 1), x), s[Len(s)])

RECURSIVE SortByTimestamp(_)
\* df.sort_values("timestamp"): rows with equal timestamps keep their order
SortByTimestamp(s) ==
    IF s = <<>> THEN <<>>
    ELSE InsertSorted(SortByTimestamp(SubSeq(s, 1, Len(s) - 1)), s[Len(s)])

\* Rows of the trailing window of row i: rolling("5min") is closed on the
\* right and open on the left, and ends at row i itself.
RollingRows(rows, i) ==
    {j \in 1..i : rows[j].timestamp > rows[i].timestamp - WindowSec}

\* min_periods=MIN_SAMPLES with every row counted once
EnoughPeriods_AnyCount(cnt) == cnt >= 1

\* rolling(..., min_periods=MIN_SAMPLES): a result only from MIN_SAMPLES rows on
EnoughPeriods(cnt) == cnt >= MIN_SAMPLES

\* The three rolling aggregates at the last row of batch i.
RollingAt(rows, i) ==
    LET J == RollingRows(rows, i)
        cnt == SumSeq([j \in 1..i |-> IF j \in J THEN rows[j].n ELSE 0], i)
        tot == SumSeq([j \in 1..i |-> IF j \in J THEN rows[j].n * rows[j].score ELSE 0], i)
        nbad == SumSeq([j \in 1..i |-> IF j \in J /\ rows[j].is_bad = 1
                                       THEN rows[j].n ELSE 0], i)
    IN  IF EnoughPeriods(cnt)
        THEN [valid |-> TRUE, timestamp |-> rows[i].timestamp,
              sum_score |-> tot, n_bad |-> nbad, n_samples |-> cnt]
        ELSE [valid |-> FALSE, timestamp |-> rows[i].timestamp]

Rolling(rows) == [i \in 1..Len(rows) |-> RollingAt(rows, i)]

\* A bin labelled by the timestamp itself
BinOf_Unfloored(t) == t

\* Left edge of the STEP_MINUTES bin a timestamp falls in.
BinOf(t) == (t \div StepSec) * StepSec

\* resample(step).last(): one row per bin from the first to the last bin,
\* holding the last non-null value of the bin, null when the bin has none.
Resample(roll) ==
    IF roll = <<>> THEN <<>>
    ELSE LET first == BinOf(roll[1].timestamp)
             last == BinOf(roll[Len(roll)].timestamp)
             nb == (last - first) \div StepSec + 1
             binAt(k) == first + (k - 1) * StepSec
             inBin(k) == {i \in 1..Len(roll) :
                            /\ roll[i].valid
                            /\ BinOf(roll[i].timestamp) = binAt(k)}
             lastIn(k) == CHOOSE i \in inBin(k) : \A j \in inBin(k) : j <= i
         IN  [k \in 1..nb |->
                IF inBin(k) = {} THEN [valid |-> FALSE, label |-> binAt(k)]
                ELSE [valid |-> TRUE, label |-> binAt(k),
                      sum_score |-> roll[lastIn(k)].sum_score,
                      n_bad |-> roll[lastIn(k)].n_bad,
                      n_samples |-> roll[lastIn(k)].n_samples]]

RECURSIVE DropNa(_)
DropNa(s) ==
    IF s = <<>> THEN <<>>
    ELSE LET rest == DropNa(SubSeq(s, 1, Len(s) - 1))
         IN  IF s[Len(s)].valid THEN Append(rest, s[Len(s)]) ELSE rest

\* Lines 104-109: label, window_start, the two roundings.
WindowRow(r) ==
    [window_end |-> r.label,
     window_start |-> r.label - WindowSec,
     mean_score |-> RoundHalfEven(r.sum_score, r.n_samples),
     bad_pct |-> RoundHalfEven(100 * Cent * r.n_bad, r.n_samples),
     n_samples |-> r.n_samples]

\* ------------------------------------------------------------------ actions
\* main, lines 336-338 and build_window_table lines 84-85
SortRows ==
    /\ pc = "start"
    /\ df' = SortByTimestamp([k \in 1..Len(df) |->
                df[k] @@ [is_bad |-> IF df[k].tier = "bad" THEN 1 ELSE 0]])
    /\ pc' = "roll"
    /\ UNCHANGED <<buildVars, windows, statVars, mergeVars, intervals, out_file>>
    /\ UNCHANGED <<in_file, error, otherVars>>

\* build_window_table lines 87-99
Roll ==
    /\ pc = "roll"
    /\ tmp' = Rolling(df)
    /\ pc' = "resample"
    /\ UNCHANGED <<df, sampled, windows, statVars, mergeVars, intervals, out_file>>
    /\ UNCHANGED <<in_file, error, otherVars>>

\* build_window_table lines 101-102
ResampleLast ==
    /\ pc = "resample"
    /\ sampled' = DropNa(Resample(tmp))
    /\ pc' = "label"
    /\ UNCHANGED <<df, tmp, windows, statVars, mergeVars, intervals, out_file>>
    /\ UNCHANGED <<in_file, error, otherVars>>

\* build_window_table lines 104-111
LabelWindows ==
    /\ pc = "label"
    /\ windows' = [k \in 1..Len(sampled) |-> WindowRow(sampled[k])]
    /\ pc' = "built"
    /\ UNCHANGED <<df, buildVars, statVars, mergeVars, intervals, out_file>>
    /\ UNCHANGED <<in_file, error, otherVars>>

\* ----------------------------------------------------- main: classification
Abs(x) == IF x < 0 THEN -x ELSE x

RECURSIVE GCD(_, _)
GCD(a, b) == IF b = 0 THEN a ELSE GCD(b, a % b)

\* windows["mean_score"].mean(), kept exact as num/den (hundredths)
MeanOf(w) ==
    [num |-> SumSeq([k \in 1..Len(w) |-> w[k].mean_score], Len(w)), den |-> Len(w)]

\* windows["mean_score"].std(ddof=0), kept exact: with d[k] = N*mean[k] - sum,
\* g a common divisor of the d[k] and ss the sum of the (d[k]/g)^2, the
\* standard deviation is (g/N) * sqrt(ss/N) hundredths.
StdOf(w) ==
    LET N == Len(w)
        S == MeanOf(w).num
        d == [k \in 1..N |-> Abs(N * w[k].mean_score - S)]
        RECURSIVE GcdUpTo(_)
        GcdUpTo(k) == IF k = 0 THEN 0 ELSE GCD(d[k], GcdUpTo(k - 1))
        g == IF GcdUpTo(N) = 0 THEN 1 ELSE GcdUpTo(N)
    IN  [g |-> g, n |-> N,
         ss |-> SumSeq([k \in 1..N |-> (d[k] \div g) * (d[k] \div g)], N)]

\* The test global_std > 1e-9 with the guard left out
StdIsPositive_Always(std) == TRUE

\* global_std > 1e-9.  The means are hundredths, so a standard deviation
\* that is not zero is far above 1e-9.
StdIsPositive(std) == std.ss > 0

ZeroZ == [d |-> 0, std |-> [g |-> 1, n |-> 1, ss |-> 1]]

\* (m - global_mean) / global_std when the guard allows it, else 0.0.  The
\* quotient is kept exact: [d, std] stands for (d/std.g) * sqrt(std.n/std.ss),
\* a division by zero when std.ss = 0.
ZScoreOf(m, gm, std) ==
    IF StdIsPositive(std) THEN [d |-> gm.den * m - gm.num, std |-> std] ELSE ZeroZ

\* The quotient was really computed (no division by zero)
ZIsFinite(z) == z.std.ss > 0
ZIsZero(z) == ZIsFinite(z) /\ z.d = 0

\* z < thr in place of z <= thr
ZLeq_Strict(z, thr) ==
    LET c == GCD(Abs(thr), Cent)
        p == Abs(thr) \div c
        q == Cent \div c
        e == z.d \div z.std.g
        lhs == q * q * z.std.n * e * e
        rhs == p * p * z.std.ss
    IN  /\ ZIsFinite(z)
        /\ IF thr < 0 THEN e < 0 /\ lhs > rhs
           ELSE IF thr = 0 THEN e < 0
           ELSE e <= 0 \/ lhs < rhs

\* z <= thr, thr in hundredths; a comparison with NaN or with 0/0 is false
ZLeq(z, thr) ==
    LET c == GCD(Abs(thr), Cent)
        p == Abs(thr) \div c
        q == Cent \div c
        e == z.d \div z.std.g
        lhs == q * q * z.std.n * e * e
        rhs == p * p * z.std.ss
    IN  /\ ZIsFinite(z)
        /\ IF thr < 0 THEN e < 0 /\ lhs >= rhs
           ELSE IF thr = 0 THEN e <= 0
           ELSE e <= 0 \/ lhs <= rhs

\* Levels tried from the least severe up
severity_from_Ascending(window_score_z, bad_pct) ==
    IF ZLeq(window_score_z, SEV_1_Z) \/ bad_pct >= SEV_1_BAD_PCT THEN 1
    ELSE IF ZLeq(window_score_z, SEV_2_Z) \/ bad_pct >= SEV_2_BAD_PCT THEN 2
    ELSE IF ZLeq(window_score_z, SEV_3_Z) \/ bad_pct >= SEV_3_BAD_PCT THEN 3
    ELSE 0

severity_from(window_score_z, bad_pct) ==
    IF ZLeq(window_score_z, SEV_3_Z) \/ bad_pct >= SEV_3_BAD_PCT THEN 3
    ELSE IF ZLeq(window_score_z, SEV_2_Z) \/ bad_pct >= SEV_2_BAD_PCT THEN 2
    ELSE IF ZLeq(window_score_z, SEV_1_Z) \/ bad_pct >= SEV_1_BAD_PCT THEN 1
    ELSE 0

\* flag_high_bad with > in place of >=
HighBad_Above(bad_pct) == bad_pct > BAD_PCT_THRESHOLD

\* The threshold read as a share of 1 while bad_pct is a percentage
HighBad_AsFraction(bad_pct) == bad_pct >= 100 * BAD_PCT_THRESHOLD

\* main line 354
HighBad(bad_pct) == bad_pct >= BAD_PCT_THRESHOLD

\* flag_low_mean with < in place of <=
LowMean_Strict(z) == ZLeq_Strict(z, -K_STD)

\* main line 353
LowMean(z) == ZLeq(z, -K_STD)

\* main lines 347-350
WithZ(w, gm, std) ==
    [k \in 1..Len(w) |->
        w[k] @@ [window_score_z |-> ZScoreOf(w[k].mean_score, gm, std)]]

\* main lines 353-355
WithFlags(w) ==
    [k \in 1..Len(w) |->
        w[k] @@ [flag_low_mean |-> LowMean(w[k].window_score_z),
                 flag_high_bad |-> HighBad(w[k].bad_pct),
                 is_bad_window |-> LowMean(w[k].window_score_z) \/ HighBad(w[k].bad_pct)]]

\* main lines 358-361
WithSeverity(w) ==
    [k \in 1..Len(w) |->
        w[k] @@ [severity |-> severity_from(w[k].window_score_z, w[k].bad_pct)]]

\* No window, and main goes on to write the empty interval table
EmptyReturn_Writes ==
    /\ pc = "built"
    /\ windows = <<>>
    /\ pc' = "write"
    /\ UNCHANGED <<df, buildVars, windows, statVars, mergeVars, intervals, out_file>>
    /\ UNCHANGED <<in_file, error, otherVars>>

\* main lines 338-341: no window, nothing more is done
EmptyReturn ==
    /\ pc = "built"
    /\ windows = <<>>
    /\ pc' = "done"
    /\ UNCHANGED <<df, buildVars, windows, statVars, mergeVars, intervals, out_file>>
    /\ UNCHANGED <<in_file, error, otherVars>>

\* main lines 343-344
Baseline ==
    /\ pc = "built"
    /\ windows # <<>>
    /\ global_mean' = MeanOf(windows)
    /\ global_std' = StdOf(windows)
    /\ pc' = "zscore"
    /\ UNCHANGED <<df, buildVars, windows, mergeVars, intervals, out_file>>
    /\ UNCHANGED <<in_file, error, otherVars>>

\* main lines 346-350
ZScore ==
    /\ pc = "zscore"
    /\ windows' = WithZ(windows, global_mean, global_std)
    /\ pc' = "flags"
    /\ UNCHANGED <<df, buildVars, statVars, mergeVars, intervals, out_file>>
    /\ UNCHANGED <<in_file, error, otherVars>>

\* main lines 352-355
Flags ==
    /\ pc = "flags"
    /\ windows' = WithFlags(windows)
    /\ pc' = "severity"
    /\ UNCHANGED <<df, buildVars, statVars, mergeVars, intervals, out_file>>
    /\ UNCHANGED <<in_file, error, otherVars>>

\* main lines 357-361
Severity ==
    /\ pc = "severity"
    /\ windows' = WithSeverity(windows)
    /\ pc' = "merge"
    /\ UNCHANGED <<df, buildVars, statVars, mergeVars, intervals, out_file>>
    /\ UNCHANGED <<in_file, error, otherVars>>

\* -------------------------------------------------------- merge_bad_windows
RECURSIVE SelectBad(_)
\* w[w["is_bad_window"]]
SelectBad(w) ==
    IF w = <<>> THEN <<>>
    ELSE LET rest == SelectBad(SubSeq(w, 1, Len(w) - 1))
         IN  IF w[Len(w)].is_bad_window THEN Append(rest, w[Len(w)]) ELSE rest

RECURSIVE InsertByStart(_, _)
InsertByStart(s, x) ==
    IF s = <<>> THEN <<x>>
    ELSE IF s[Len(s)].window_start <= x.window_start THEN Append(s, x)
    ELSE Append(InsertByStart(SubSeq(s, 1, Len(s) - 1), x), s[Len(s)])

RECURSIVE SortByStart(_)
\* sort_values("window_start")
SortByStart(s) ==
    IF s = <<>> THEN <<>>
    ELSE InsertByStart(SortByStart(SubSeq(s, 1, Len(s) - 1)), s[Len(s)])

Max(a, b) == IF a >= b THEN a ELSE b

\* An interval opened without counting the window that opens it
OpenInterval_Uncounted(row) ==
    [cur_start |-> row.window_start,
     cur_end |-> row.window_end,
     w_sum_score |-> 0,
     w_sum_bad |-> 0,
     w_sum_n |-> 0,
     num_windows |-> 0,
     cur_sev |-> row.severity,
     any_low_mean |-> row.flag_low_mean,
     any_high_bad |-> row.flag_high_bad]

\* Lines 162-172 and 216-227: the locals of an interval opened by row
OpenInterval(row) ==
    [cur_start |-> row.window_start,
     cur_end |-> row.window_end,
     w_sum_score |-> row.mean_score * row.n_samples,
     w_sum_bad |-> row.bad_pct * row.n_samples,
     w_sum_n |-> row.n_samples,
     num_windows |-> 1,
     cur_sev |-> row.severity,
     any_low_mean |-> row.flag_low_mean,
     any_high_bad |-> row.flag_high_bad]

\* Lines 202-212 with the sums taken unweighted
Absorb_Unweighted(c, row) ==
    [cur_start |-> c.cur_start,
     cur_end |-> Max(c.cur_end, row.window_end),
     w_sum_score |-> c.w_sum_score + row.mean_score,
     w_sum_bad |-> c.w_sum_bad + row.bad_pct,
     w_sum_n |-> c.w_sum_n + 1,
     num_windows |-> c.num_windows + 1,
     cur_sev |-> Max(c.cur_sev, row.severity),
     any_low_mean |-> c.any_low_mean \/ row.flag_low_mean,
     any_high_bad |-> c.any_high_bad \/ row.flag_high_bad]

\* Lines 202-212 with the end of the open interval left as it is
Absorb_KeepsEnd(c, row) ==
    [cur_start |-> c.cur_start,
     cur_end |-> c.cur_end,
     w_sum_score |-> c.w_sum_score + row.mean_score * row.n_samples,
     w_sum_bad |-> c.w_sum_bad + row.bad_pct * row.n_samples,
     w_sum_n |-> c.w_sum_n + row.n_samples,
     num_windows |-> c.num_windows + 1,
     cur_sev |-> Max(c.cur_sev, row.severity),
     any_low_mean |-> c.any_low_mean \/ row.flag_low_mean,
     any_high_bad |-> c.any_high_bad \/ row.flag_high_bad]

\* Lines 202-212 with the flags of the last row only
Absorb_LastFlags(c, row) ==
    [cur_start |-> c.cur_start,
     cur_end |-> Max(c.cur_end, row.window_end),
     w_sum_score |-> c.w_sum_score + row.mean_score * row.n_samples,
     w_sum_bad |-> c.w_sum_bad + row.bad_pct * row.n_samples,
     w_sum_n |-> c.w_sum_n + row.n_samples,
     num_windows |-> c.num_windows + 1,
     cur_sev |-> Max(c.cur_sev, row.severity),
     any_low_mean |-> row.flag_low_mean,
     any_high_bad |-> row.flag_high_bad]

\* Lines 202-212: row joins the open interval
Absorb(c, row) ==
    [cur_start |-> c.cur_start,
     cur_end |-> Max(c.cur_end, row.window_end),
     w_sum_score |-> c.w_sum_score + row.mean_score * row.n_samples,
     w_sum_bad |-> c.w_sum_bad + row.bad_pct * row.n_samples,
     w_sum_n |-> c.w_sum_n + row.n_samples,
     num_windows |-> c.num_windows + 1,
     cur_sev |-> Max(c.cur_sev, row.severity),
     any_low_mean |-> c.any_low_mean \/ row.flag_low_mean,
     any_high_bad |-> c.any_high_bad \/ row.flag_high_bad]

\* The gap taken from the open interval's start, not from its end
Contiguous_StartGap(c, row) == row.window_start <= c.cur_start + StepSec

\* next_start <= cur_end with the step left out
Contiguous_NoStep(c, row) == row.window_start <= c.cur_end

\* Line 199
Contiguous(c, row) == row.window_start <= c.cur_end + StepSec

\* Lines 174-192
finalize_interval(c) ==
    [start_time |-> c.cur_start,
     end_time |-> c.cur_end,
     duration_seconds |-> c.cur_end - c.cur_start,
     mean_score |-> IF c.w_sum_n > 0 THEN RoundHalfEven(c.w_sum_score, c.w_sum_n) ELSE 0,
     bad_pct |-> IF c.w_sum_n > 0 THEN RoundHalfEven(c.w_sum_bad, c.w_sum_n) ELSE 0,
     n_samples |-> c.w_sum_n,
     num_windows |-> c.num_windows,
     severity |-> c.cur_sev,
     reason |-> IF c.any_low_mean /\ c.any_high_bad THEN "low_mean+high_bad"
                ELSE IF c.any_low_mean THEN "low_mean" ELSE "high_bad"]

\* a before b in the order of time
RanksBefore_ByStart(a, b) == a.start_time <= b.start_time

\* a before b under sort_values(["severity", "duration_seconds"], descending)
RanksBefore(a, b) ==
    \/ a.severity > b.severity
    \/ a.severity = b.severity /\ a.duration_seconds >= b.duration_seconds

RECURSIVE InsertByRank(_, _)
InsertByRank(s, x) ==
    IF s = <<>> THEN <<x>>
    ELSE IF RanksBefore(s[Len(s)], x) THEN Append(s, x)
    ELSE Append(InsertByRank(SubSeq(s, 1, Len(s) - 1), x), s[Len(s)])

RECURSIVE SortByRank(_)
\* Line 233; rows that tie keep their order
SortByRank(s) ==
    IF s = <<>> THEN <<>>
    ELSE InsertByRank(SortByRank(SubSeq(s, 1, Len(s) - 1)), s[Len(s)])

\* Lines 143-172: select and sort the bad windows, open the first interval
MergeBegin ==
    /\ pc = "merge"
    /\ bad' = SortByStart(SelectBad(windows))
    /\ IF bad' = <<>>
       THEN /\ pc' = "attribute"
            /\ UNCHANGED <<loop_i, cur>>
       ELSE /\ cur' = OpenInterval(bad'[1])
            /\ loop_i' = 2
            /\ pc' = "merge_loop"
    /\ intervals' = <<>>
    /\ UNCHANGED <<df, buildVars, windows, statVars, out_file>>
    /\ UNCHANGED <<in_file, error, otherVars>>

\* Lines 194-227: one pass of the loop
MergeStep ==
    /\ pc = "merge_loop"
    /\ loop_i <= Len(bad)
    /\ IF Contiguous(cur, bad[loop_i])
       THEN /\ cur' = Absorb(cur, bad[loop_i])
            /\ UNCHANGED intervals
       ELSE /\ intervals' = Append(intervals, finalize_interval(cur))
            /\ cur' = OpenInterval(bad[loop_i])
    /\ loop_i' = loop_i + 1
    /\ UNCHANGED <<df, pc, buildVars, windows, statVars, bad, out_file>>
    /\ UNCHANGED <<in_file, error, otherVars>>

\* Lines 229-234: the open interval is emitted and the table ranked
MergeEnd ==
    /\ pc = "merge_loop"
    /\ loop_i > Len(bad)
    /\ intervals' = SortByRank(Append(intervals, finalize_interval(cur)))
    /\ pc' = "attribute"
    /\ UNCHANGED <<df, buildVars, windows, statVars, mergeVars, out_file>>
    /\ UNCHANGED <<in_file, error, otherVars>>

\* ------------------------------------------- attribute_services, add_diagnosis
\* Lines 262, 269-276: per service, the rows and bad rows of the segment
SegRows(rows, start, end, svc) ==
    SumSeq([k \in 1..Len(rows) |->
              IF /\ rows[k].timestamp >= start
                 /\ rows[k].timestamp <= end
                 /\ rows[k].service_name = svc
              THEN rows[k].n ELSE 0], Len(rows))

SegBadRows(rows, start, end, svc) ==
    SumSeq([k \in 1..Len(rows) |->
              IF /\ rows[k].timestamp >= start
                 /\ rows[k].timestamp <= end
                 /\ rows[k].service_name = svc
                 /\ rows[k].is_bad = 1
              THEN rows[k].n ELSE 0], Len(rows))

RECURSIVE PerService(_, _, _, _)
\* The groupby table of the segment: one row per service present, by name
PerService(rows, start, end, k) ==
    IF k = 0 THEN <<>>
    ELSE LET rest == PerService(rows, start, end, k - 1)
             svc == ServiceOrder[k]
             cnt == SegRows(rows, start, end, svc)
         IN  IF cnt = 0 THEN rest
             ELSE Append(rest, [service_name |-> svc, n_bad |-> SegBadRows(rows, start, end, svc),
                                n |-> cnt])

\* a before b under sort_values(["bad_pct", "n"], descending); bad_pct is
\* 100 * n_bad / n, compared exactly
WorseThan(a, b) ==
    \/ a.n_bad * b.n > b.n_bad * a.n
    \/ a.n_bad * b.n = b.n_bad * a.n /\ a.n >= b.n

MoreRows(a, b) == a.n >= b.n

RECURSIVE InsertByBadPct(_, _)
InsertByBadPct(s, x) ==
    IF s = <<>> THEN <<x>>
    ELSE IF WorseThan(s[Len(s)], x) THEN Append(s, x)
    ELSE Append(InsertByBadPct(SubSeq(s, 1, Len(s) - 1), x), s[Len(s)])

RECURSIVE SortByBadPct(_)
\* Line 281; rows that tie keep their order
SortByBadPct(s) ==
    IF s = <<>> THEN <<>>
    ELSE InsertByBadPct(SortByBadPct(SubSeq(s, 1, Len(s) - 1)), s[Len(s)])

RECURSIVE InsertByCount(_, _)
InsertByCount(s, x) ==
    IF s = <<>> THEN <<x>>
    ELSE IF MoreRows(s[Len(s)], x) THEN Append(s, x)
    ELSE Append(InsertByCount(SubSeq(s, 1, Len(s) - 1), x), s[Len(s)])

RECURSIVE SortByCount(_)
\* Line 285; rows that tie keep their order
SortByCount(s) ==
    IF s = <<>> THEN <<>>
    ELSE InsertByCount(SortByCount(SubSeq(s, 1, Len(s) - 1)), s[Len(s)])

HeadK(s, top_k) == SubSeq(s, 1, IF Len(s) < top_k THEN Len(s) ELSE top_k)

\* Lines 258-287 for one interval.  The two strings are kept as the lists
\* of (name, number) pairs they are formatted from.
Attribution(rows, itv, top_k) ==
    LET per == PerService(rows, itv.start_time, itv.end_time, Len(ServiceOrder))
    IN  IF per = <<>>
        THEN [affected_services_count |-> 0,
              top_services_by_bad_pct |-> <<>>,
              top_services_by_count |-> <<>>]
        ELSE [affected_services_count |->
                  Cardinality({k \in 1..Len(per) : per[k].n_bad > 0}),
              top_services_by_bad_pct |->
                  LET top == HeadK(SortByBadPct(per), top_k)
                  IN  [k \in 1..Len(top) |->
                          [service_name |-> top[k].service_name,
                           pct |-> RoundHalfEven(100 * top[k].n_bad, top[k].n)]],
              top_services_by_count |->
                  LET top == HeadK(SortByCount(per), top_k)
                  IN  [k \in 1..Len(top) |->
                          [service_name |-> top[k].service_name, n |-> top[k].n]]]

\* Lines 303-307: the formatted list contains the text "gateway("
GatewayInvolved(top) ==
    \E k \in 1..Len(top) : top[k].service_name \in GatewaySuffixed

\* The count compared with > in place of >=
diag_Above(row) ==
    IF row.affected_services_count > NETWORK_WIDE_MIN_AFFECTED_SERVICES
    THEN "network_wide" ELSE "service_specific"

\* Lines 309-313
diag(row) ==
    IF row.affected_services_count >= NETWORK_WIDE_MIN_AFFECTED_SERVICES
    THEN "network_wide" ELSE "service_specific"

TOP_K == 3

\* main line 364
Attribute ==
    /\ pc = "attribute"
    /\ intervals' = [k \in 1..Len(intervals) |->
                        intervals[k] @@ Attribution(df, intervals[k], TOP_K)]
    /\ pc' = "diagnose"
    /\ UNCHANGED <<df, buildVars, windows, statVars, mergeVars, out_file>>
    /\ UNCHANGED <<in_file, error, otherVars>>

\* Line 315, intervals.apply(diag, axis=1).  On a table with rows the result
\* is the Series of diag's values.  On a table without rows pandas first
\* calls diag on a probe row: a pandas whose probe row has no columns gets
\* "service_specific" back and returns an empty Series; a pandas whose probe
\* row holds NaN under every column gets a ValueError from int(NaN), which
\* it swallows, and returns a copy of the table itself.
ApplyResults(t) == IF t = <<>> THEN {"Series", "DataFrame"} ELSE {"Series"}

\* main line 365: add_diagnosis.  Assigning a DataFrame of several columns
\* to the single column "diagnosis" raises ValueError.
Diagnose ==
    /\ pc = "diagnose"
    /\ \E applied \in ApplyResults(intervals) :
          IF applied = "DataFrame"
          THEN /\ error' = Raised("ValueError", "add_diagnosis", {})
               /\ pc' = "raised"
               /\ UNCHANGED intervals
          ELSE /\ intervals' = [k \in 1..Len(intervals) |->
                                   intervals[k] @@
                                   [gateway_involved |->
                                        GatewayInvolved(intervals[k].top_services_by_bad_pct),
                                    diagnosis |-> diag(intervals[k])]]
               /\ pc' = "normalize"
               /\ UNCHANGED error
    /\ UNCHANGED <<df, buildVars, windows, statVars, mergeVars, out_file>>
    /\ UNCHANGED <<in_file, otherVars>>

\* main lines 367-375.  mean_score_z stands for the quotient rounded to two
\* decimals; the quotient by the standard deviation is kept exact.
Normalize ==
    /\ pc = "normalize"
    /\ intervals' = [k \in 1..Len(intervals) |->
                        intervals[k] @@
                        [mean_score_z |->
                             [decimals |-> 2,
                              of |-> ZScoreOf(intervals[k].mean_score,
                                              global_mean, global_std)],
                         mean_score_delta |->
                             RoundHalfEven(global_mean.den * intervals[k].mean_score
                                           - global_mean.num, global_mean.den)]]
    /\ pc' = "write"
    /\ UNCHANGED <<df, buildVars, windows, statVars, mergeVars, out_file>>
    /\ UNCHANGED <<in_file, error, otherVars>>

\* main line 377, to_csv: OUT_PATH is opened for writing, which creates it
\* or cuts it to length 0
WriteOpen ==
    /\ pc = "write"
    /\ out_file' = FileWith(<<>>)
    /\ pc' = "writing"
    /\ UNCHANGED <<df, buildVars, windows, statVars, mergeVars, intervals>>
    /\ UNCHANGED <<in_file, error, otherVars>>

\* to_csv: the next row of the table reaches the file
WriteRow ==
    /\ pc = "writing"
    /\ Len(out_file.rows) < Len(intervals)
    /\ out_file' = FileWith(Append(out_file.rows, intervals[Len(out_file.rows) + 1]))
    /\ UNCHANGED <<df, pc, buildVars, windows, statVars, mergeVars, intervals>>
    /\ UNCHANGED <<in_file, error, otherVars>>

\* to_csv: every row is written, the file is closed
WriteClose ==
    /\ pc = "writing"
    /\ Len(out_file.rows) = Len(intervals)
    /\ pc' = "done"
    /\ UNCHANGED <<df, buildVars, windows, statVars, mergeVars, intervals, out_file>>
    /\ UNCHANGED <<in_file, error, otherVars>>

\* to_csv: a write fails (disk full, I/O error) and OSError ends the run
WriteFails ==
    /\ pc = "writing"
    /\ Len(out_file.rows) < Len(intervals)
    /\ error' = Raised("OSError", "to_csv", {})
    /\ pc' = "raised"
    /\ UNCHANGED <<df, buildVars, windows, statVars, mergeVars, intervals, out_file>>
    /\ UNCHANGED <<in_file, otherVars>>

NoStat == [num |-> 0, den |-> 1]
NoCur == [num_windows |-> 0]

Init ==
    /\ df \in InputTables
    /\ pc = "start"
    /\ tmp = <<>>
    /\ sampled = <<>>
    /\ windows = <<>>
    /\ global_mean = NoStat
    /\ global_std = NoStat
    /\ bad = <<>>
    /\ loop_i = 0
    /\ cur = NoCur
    /\ intervals = <<>>
    /\ out_file = NoFile
    /\ error = NoError
    /\ in_file = FileOf(df)
    /\ OthersIdle

Next ==
    \/ SortRows \/ Roll \/ ResampleLast \/ LabelWindows
    \/ EmptyReturn \/ Baseline \/ ZScore \/ Flags \/ Severity
    \/ MergeBegin \/ MergeStep \/ MergeEnd
    \/ Attribute \/ Diagnose \/ Normalize
    \/ WriteOpen \/ WriteRow \/ WriteClose \/ WriteFails

Spec == Init /\ [][Next]_vars

\* --------------------------------------------- merge_bad_windows on its own
\* Window tables as build_window_table returns them: window_end on the
\* step grid and strictly increasing, n_samples >= MIN_SAMPLES.
EndMinutes == {0, 1, 2, 8, 9}

\* (mean_score, bad_pct, n_samples) of a window: healthy; all rows mediocre;
\* all rows bad; half of the rows bad.
WindowKinds ==
    {[mean_score |-> 9400, bad_pct |-> 0, n_samples |-> 30],
     [mean_score |-> 5000, bad_pct |-> 0, n_samples |-> 45],
     [mean_score |-> 1000, bad_pct |-> 10000, n_samples |-> 60],
     [mean_score |-> 7000, bad_pct |-> 5000, n_samples |-> 30]}

WindowAt(m, kind) ==
    [window_end |-> m * SecondsPerMinute,
     window_start |-> m * SecondsPerMinute - WindowSec] @@ kind

WindowTables ==
    {t \in UNION {[1..k -> {WindowAt(m, kind) : m \in EndMinutes, kind \in WindowKinds}] :
                    k \in 0..MaxWindows} :
        \A k \in 1..(Len(t) - 1) : t[k].window_end < t[k + 1].window_end}

\* main lines 343-361 as one function of the window table
Classified(t) == WithSeverity(WithFlags(WithZ(t, MeanOf(t), StdOf(t))))

\* The state in which main calls merge_bad_windows
InitMerge ==
    /\ \E t \in WindowTables :
          /\ windows = Classified(t)
          /\ global_mean = MeanOf(t)
          /\ global_std = StdOf(t)
    /\ pc = "merge"
    /\ df = <<>>
    /\ tmp = <<>>
    /\ sampled = <<>>
    /\ bad = <<>>
    /\ loop_i = 0
    /\ cur = NoCur
    /\ intervals = <<>>
    /\ out_file = NoFile
    /\ error = NoError
    /\ in_file = FileOf(df)
    /\ OthersIdle

NextMerge == MergeBegin \/ MergeStep \/ MergeEnd

SpecMerge == InitMerge /\ [][NextMerge]_vars

\* ------------------------------------------------- severity_from on its own
ZGrid == {-250, -200, -175, -150, -125, -100, -75, 0, 100}
PctGrid == {0, 2500, 4999, 5000, 5500, 6000, 7000, 8000, 10000}

\* The z-score v/100
ZOf(v) == [d |-> v, std |-> [g |-> 1, n |-> 1, ss |-> Cent * Cent]]

InitSeverity ==
    /\ \E v \in ZGrid, b \in PctGrid :
          windows = <<[window_score_z |-> ZOf(v), bad_pct |-> b]>>
    /\ pc = "severity"
    /\ global_mean = NoStat
    /\ global_std = NoStat
    /\ df = <<>>
    /\ tmp = <<>>
    /\ sampled = <<>>
    /\ bad = <<>>
    /\ loop_i = 0
    /\ cur = NoCur
    /\ intervals = <<>>
    /\ out_file = NoFile
    /\ error = NoError
    /\ in_file = FileOf(df)
    /\ OthersIdle

SpecSeverity == InitSeverity /\ [][Severity]_vars

\* ---------------------------------- attribute_services, add_diagnosis on their own
\* The interval merge_bad_windows returns for one bad window that ends at
\* minute m.
IntervalEndingAt(m) ==
    finalize_interval(OpenInterval(Classified(
        <<WindowAt(m, [mean_score |-> 1000, bad_pct |-> 10000, n_samples |-> 60])>>)[1]))

RECURSIVE BadRowsOf(_, _)
\* One batch of bad rows in the middle of the interval for every service of
\* B among the first k names of ServiceOrder
BadRowsOf(B, k) ==
    IF k = 0 THEN <<>>
    ELSE IF ServiceOrder[k] \in B
         THEN Append(BadRowsOf(B, k - 1), Batch(150, 15, 1000, ServiceOrder[k]))
         ELSE BadRowsOf(B, k - 1)

\* One more batch: at the start, in the middle, at the end or after the end
\* of the interval that ends at minute 5; bad or good
ExtraRows ==
    {<<>>} \cup {<<Batch(t, 30, sc, svc)>> :
                   t \in {0, 150, 300, 330}, sc \in Scores,
                   svc \in {"gateway", "home-gateway", "youtube"}}

\* The rows as main holds them: is_bad added (line 336)
WithIsBad(rows) ==
    [k \in 1..Len(rows) |-> rows[k] @@ [is_bad |-> IF rows[k].tier = "bad" THEN 1 ELSE 0]]

\* The state in which main calls attribute_services
InitAttribute ==
    /\ \E m \in {5, 6} : intervals = <<IntervalEndingAt(m)>>
    /\ \E B \in SUBSET {ServiceOrder[k] : k \in 1..Len(ServiceOrder)}, x \in ExtraRows :
          df = WithIsBad(SortByTimestamp(BadRowsOf(B, Len(ServiceOrder)) \o x))
    /\ pc = "attribute"
    /\ tmp = <<>>
    /\ sampled = <<>>
    /\ windows = <<>>
    /\ global_mean = NoStat
    /\ global_std = NoStat
    /\ bad = <<>>
    /\ loop_i = 0
    /\ cur = NoCur
    /\ out_file = NoFile
    /\ error = NoError
    /\ in_file = FileOf(df)
    /\ OthersIdle

NextAttribute == Attribute \/ Diagnose

SpecAttribute == InitAttribute /\ [][NextAttribute]_vars

\* ------------------------------------------------------ main on one scenario
\* Rows of a log in which every minute holds n rows of one service, off
\* seconds after the minute: lead minutes of score 95, then WINDOW_MINUTES
\* minutes of score 10, then trail minutes of score 95.
ScenarioRows(lead, trail, n, off) ==
    [k \in 1..(lead + WINDOW_MINUTES + trail) |->
        Batch((k - 1) * SecondsPerMinute + off, n,
              IF k > lead /\ k <= lead + WINDOW_MINUTES THEN 1000 ELSE 9500,
              "youtube")]

InitScenario ==
    /\ \E lead \in {10, 11}, trail \in {5, 10}, n \in {30, 100}, off \in {0, 30} :
          df = ScenarioRows(lead, trail, n, off)
    /\ pc = "start"
    /\ tmp = <<>>
    /\ sampled = <<>>
    /\ windows = <<>>
    /\ global_mean = NoStat
    /\ global_std = NoStat
    /\ bad = <<>>
    /\ loop_i = 0
    /\ cur = NoCur
    /\ intervals = <<>>
    /\ out_file = NoFile
    /\ error = NoError
    /\ in_file = FileOf(df)
    /\ OthersIdle

\* main on a log that yields windows
NextScenario ==
    \/ SortRows \/ Roll \/ ResampleLast \/ LabelWindows
    \/ Baseline \/ ZScore \/ Flags \/ Severity
    \/ MergeBegin \/ MergeStep \/ MergeEnd
    \/ Attribute \/ Diagnose \/ Normalize
    \/ WriteOpen \/ WriteRow \/ WriteClose \/ WriteFails

SpecScenario == InitScenario /\ [][NextScenario]_vars

\* ------------------------------------------------------ main on two bursts
\* A burst of 30 rows at time t: all of them bad, or half of them
Burst(kind, t) ==
    IF kind = "all" THEN <<Batch(t, 30, 1000, "youtube")>>
    ELSE <<Batch(t, 15, 1000, "youtube"), Batch(t, 15, 9400, "youtube")>>

\* A burst at 00:00, quiet times WINDOW_MINUTES of good rows, a second burst
TwoBursts(first, quiet, second) ==
    Burst(first, 0)
    \o [k \in 1..quiet |-> Batch(k * WindowSec, 30, 9400, "youtube")]
    \o Burst(second, (quiet + 1) * WindowSec)

InitRank ==
    /\ \E first \in {"all", "half"}, quiet \in {1, 2}, second \in {"all", "half"} :
          df = TwoBursts(first, quiet, second)
    /\ pc = "start"
    /\ tmp = <<>>
    /\ sampled = <<>>
    /\ windows = <<>>
    /\ global_mean = NoStat
    /\ global_std = NoStat
    /\ bad = <<>>
    /\ loop_i = 0
    /\ cur = NoCur
    /\ intervals = <<>>
    /\ out_file = NoFile
    /\ error = NoError
    /\ in_file = FileOf(df)
    /\ OthersIdle

SpecRank == InitRank /\ [][NextScenario]_vars

\* --------------------------------------------- main from the file on disk
\* Rows of a file: the timestamp and the score are texts that parse or do not
RawRows ==
    {[timestamp |-> TimeCell(iso, t), n |-> 30, score |-> ScoreCell(numeric, sc),
      tier |-> tier_from_score(sc), service_name |-> "youtube"] :
        iso \in BOOLEAN, t \in {0, 60}, numeric \in BOOLEAN, sc \in Scores}

\* Files: absent, or with any of the required columns missing
RawFiles ==
    {[exists |-> FALSE, columns |-> {}, rows |-> <<>>]} \cup
    {[exists |-> TRUE, columns |-> AllColumns \ gone, rows |-> r] :
        gone \in SUBSET required,
        r \in UNION {[1..k -> RawRows] : k \in 0..MaxBatches}}

InitLoad ==
    /\ in_file \in RawFiles
    /\ pc = "read"
    /\ df = <<>>
    /\ tmp = <<>>
    /\ sampled = <<>>
    /\ windows = <<>>
    /\ global_mean = NoStat
    /\ global_std = NoStat
    /\ bad = <<>>
    /\ loop_i = 0
    /\ cur = NoCur
    /\ intervals = <<>>
    /\ out_file = NoFile
    /\ error = NoError
    /\ OthersIdle

NextLoad == ReadCsv \/ CoerceRows

SpecLoad == InitLoad /\ [][NextLoad]_vars

\* ------------------------------------------- main with an older output file
\* The table an earlier run left in OUT_PATH
PreviousOutput == <<IntervalEndingAt(-5)>>

InitWrite ==
    /\ df \in InputTables
    /\ out_file \in {NoFile, FileWith(PreviousOutput)}
    /\ pc = "start"
    /\ tmp = <<>>
    /\ sampled = <<>>
    /\ windows = <<>>
    /\ global_mean = NoStat
    /\ global_std = NoStat
    /\ bad = <<>>
    /\ loop_i = 0
    /\ cur = NoCur
    /\ intervals = <<>>
    /\ error = NoError
    /\ in_file = FileOf(df)
    /\ OthersIdle

SpecWrite == InitWrite /\ [][Next]_vars

\* ============================================================================
\* scripts/quality_score.py: the score of one log row.
\* Times are whole milliseconds, packet loss whole percent.  A component
\* 100 * exp(-x / scale) is kept in hundredths of a point, a row's score in
\* hundredths of that (1000000 is 100.0), so that a weight of 0.55 is the
\* integer 55 and nothing is rounded after the exponential.
\* ============================================================================
\* A cell of a numeric column: NaN, or the number v
Missing == [isna |-> TRUE, v |-> 0]
Val(v) == [isna |-> FALSE, v |-> v]
\* pd.notna
notna(cell) == ~cell.isna

\* 100 points in the unit of a row's score
FullScore == 100 * Cent * Cent

\* x / scale in tenths, for which the exponential is tabulated
ExpPoints == {-10, 0, 1, 5, 10, 20, 50, 1000}

\* round(10000 * exp(-r / 10)): 100 * exp(-x / scale) in hundredths where
\* x / scale = r / 10.  From r = 100 on the value is below 0.005 hundredths.
Exp100(r) ==
    IF r >= 100 THEN 0
    ELSE CASE r = -10 -> 27183
           [] r = 0 -> 10000
           [] r = 1 -> 9048
           [] r = 5 -> 6065
           [] r = 10 -> 3679
           [] r = 20 -> 1353
           [] r = 50 -> 67

\* 100.0 * math.exp(-x / scale)
ExpScore(x, scale) == Exp100((10 * x) \div scale)

\* clamp without its upper end
clamp_NoUpper(x, lo, hi) == IF x < lo THEN lo ELSE x

\* Lines 32-33: max(lo, min(hi, x))
clamp(x, lo, hi) ==
    LET m == IF hi < x THEN hi ELSE x
    IN  IF lo > m THEN lo ELSE m

\* Lines 57-66, coerce_success on one cell of the success column, given as
\* the text astype(str) makes of it: the mapping of the stripped, lowered
\* text, else the number the text stands for cut to an int and clipped to
\* 0..1, else 0
coerce_success(text) ==
    CASE text \in {"True", "true", " TRUE ", "1", "yes"} -> 1
      [] text \in {"False", "false", "0", "no"} -> 0
      [] text = "2" -> 1
      [] text = "0.5" -> 0
      [] text = "-1" -> 0
      [] OTHER -> 0

SuccessTexts == {"True", "true", " TRUE ", "1", "yes", "False", "false", "0", "no",
                 "2", "0.5", "-1", "nan", "maybe"}

\* The value 9999.0 that stands in for a missing time
MISSING_MS == 9999

\* Lines 83-103.  row.success is the coerced 0/1.
score_ping_row(row, has_loss_col) ==
    IF row.success = 0 THEN 0
    ELSE LET lat == IF notna(row.latency_ms) THEN row.latency_ms.v ELSE MISSING_MS
             jit == IF notna(row.jitter_ms) THEN row.jitter_ms.v ELSE MISSING_MS
             lat_score == ExpScore(lat, 200)
             jit_score == ExpScore(jit, 20)
         IN  IF has_loss_col
             THEN LET loss == IF notna(row.packet_loss_pct) THEN row.packet_loss_pct.v ELSE 0
                      loss_score == ExpScore(loss, 2)
                  IN  clamp(55 * lat_score + 30 * jit_score + 15 * loss_score, 0, FullScore)
             ELSE clamp(65 * lat_score + 35 * jit_score, 0, FullScore)

\* row.get(col, row.get("latency_ms")): the column col when the log has
\* it, else latency_ms
TimeOf(row, col) == IF col \in DOMAIN row THEN row[col] ELSE row.latency_ms

\* Lines 106-115
score_dns_row(row) ==
    IF row.success = 0 THEN 0
    ELSE LET cell == TimeOf(row, "dns_ms")
             dns_ms == IF notna(cell) THEN cell.v ELSE MISSING_MS
         IN  clamp(Cent * ExpScore(dns_ms, 50), 0, FullScore)

\* Lines 118-139.  A status_code that int() rejects is passed over.
score_http_row(row) ==
    IF row.success = 0 THEN 0
    ELSE LET cell == TimeOf(row, "http_ms")
             http_ms == IF notna(cell) THEN cell.v ELSE MISSING_MS
             timing == ExpScore(http_ms, 300)
             status == row.status_code
             factor == IF notna(status) /\ status.isint
                       THEN IF 500 <= status.v /\ status.v < 600 THEN 40
                            ELSE IF 400 <= status.v /\ status.v < 500 THEN 70
                            ELSE Cent
                       ELSE Cent
         IN  clamp(factor * timing, 0, FullScore)

\* main lines 176 and 188-199: the score column of one row
ScoreOf(row) ==
    LET r == [row EXCEPT !.success = coerce_success(@)]
    IN  CASE r.probe_type = "ping" -> score_ping_row(r, "packet_loss_pct" \in DOMAIN r)
          [] r.probe_type = "dns" -> score_dns_row(r)
          [] r.probe_type = "http" -> score_http_row(r)
          [] OTHER -> 0

\* main lines 176-199 for the row
ScoreRow ==
    /\ pc = "score"
    /\ probe_score' = ScoreOf(probe_row)
    /\ pc' = "scored"
    /\ UNCHANGED <<in_file, df, buildVars, windows, statVars, mergeVars, intervals,
                   out_file, error>>
    /\ UNCHANGED <<probe_row, runVars, gwVars, downVars>>

\* The times of a column whose exponential has the given scale
TimeCells(scale) == {Missing} \cup {Val((scale * r) \div 10) : r \in ExpPoints}

StatusCells ==
    {[isna |-> TRUE, isint |-> FALSE, v |-> 0], [isna |-> FALSE, isint |-> FALSE, v |-> 0]}
    \cup {[isna |-> FALSE, isint |-> TRUE, v |-> c] : c \in {200, 301, 404, 503, 600}}

\* Rows of the log.  A log written by run_once has packet_loss_pct and no
\* dns_ms or http_ms column; older and foreign logs differ.
PingRows ==
    {[probe_type |-> "ping", success |-> ok, latency_ms |-> lat, jitter_ms |-> jit] :
        ok \in SuccessTexts, lat \in TimeCells(200), jit \in TimeCells(20)}
    \cup
    {[probe_type |-> "ping", success |-> ok, latency_ms |-> lat, jitter_ms |-> jit,
      packet_loss_pct |-> loss] :
        ok \in {"True", "False", "nan"}, lat \in TimeCells(200), jit \in TimeCells(20),
        loss \in TimeCells(2)}

DnsRows ==
    {[probe_type |-> "dns", success |-> ok, latency_ms |-> lat] :
        ok \in SuccessTexts, lat \in TimeCells(50)}
    \cup
    {[probe_type |-> "dns", success |-> ok, latency_ms |-> lat, dns_ms |-> ms] :
        ok \in {"True", "False", "nan"}, lat \in TimeCells(50), ms \in TimeCells(50)}

HttpRows ==
    {[probe_type |-> "http", success |-> ok, latency_ms |-> lat, status_code |-> st] :
        ok \in SuccessTexts, lat \in TimeCells(300), st \in StatusCells}
    \cup
    {[probe_type |-> "http", success |-> ok, latency_ms |-> lat, status_code |-> st,
      http_ms |-> ms] :
        ok \in {"True", "False", "nan"}, lat \in {Missing, Val(0)}, st \in StatusCells,
        ms \in TimeCells(300)}

OtherRows ==
    {[probe_type |-> "speedtest", success |-> ok, latency_ms |-> Val(0)] : ok \in SuccessTexts}

ProbeRows == PingRows \cup DnsRows \cup HttpRows \cup OtherRows

\* detect_bad_intervals is not running
DetectIdle ==
    /\ in_file = FileOf(<<>>)
    /\ df = <<>>
    /\ tmp = <<>>
    /\ sampled = <<>>
    /\ windows = <<>>
    /\ global_mean = NoStat
    /\ global_std = NoStat
    /\ bad = <<>>
    /\ loop_i = 0
    /\ cur = NoCur
    /\ intervals = <<>>
    /\ out_file = NoFile
    /\ error = NoError

InitScore ==
    /\ probe_row \in ProbeRows
    /\ probe_score = Idle
    /\ pc = "score"
    /\ DetectIdle
    /\ RunIdle
    /\ GwIdle
    /\ DownIdle

SpecScore == InitScore /\ [][ScoreRow]_vars

\* ============================================================================
\* src/main.py run_once with src/csv_log.py: one round of probes appended
\* to the log.  Of the log's columns the model keeps service_name, hostname,
\* url, probe_type, success and error_kind.
\* ============================================================================
\* The error kinds main imports from error_kinds for a probe that cannot be
\* configured
CONFIG_MISSING_HOSTNAME == "config_missing_hostname"
CONFIG_MISSING_URL == "config_missing_url"
CONFIG_MISSING_GATEWAY == "config_missing_gateway"

\* csv_log line 5, the columns kept
CSV_HEADERS == <<"service_name", "hostname", "url", "probe_type", "success", "error_kind">>

\* The header of a log written under another schema
OLD_HEADERS == <<"service_name", "hostname", "url", "probe_type", "success">>

\* A log file: its lines, each split into cells; a blank line is <<>>
LogFile(lines) == [exists |-> TRUE, rows |-> lines]
NoLog == [exists |-> FALSE, rows |-> <<>>]

\* csv_log lines 51-87
make_row(service_name, hostname, url, probe_type, success, error_kind) ==
    [service_name |-> service_name, hostname |-> hostname, url |-> url,
     probe_type |-> probe_type, success |-> IF success THEN "True" ELSE "False",
     error_kind |-> error_kind]

\* csv.DictWriter.writerow: the cells of a row in the order of CSV_HEADERS
writerow(r) == [k \in 1..Len(CSV_HEADERS) |-> r[CSV_HEADERS[k]]]

\* csv_log lines 90-130: the file after the call, and whether it raised.
\* existing_headers is the first line as csv.reader gives it, <<>> standing
\* for None (no line) as well as for [] (a blank line); both are false.
append_rows(file, lines) ==
    IF lines = <<>> THEN [raised |-> FALSE, file |-> file]
    ELSE LET existing_headers == IF file.rows # <<>> THEN file.rows[1] ELSE <<>>
         IN  IF existing_headers # <<>> /\ existing_headers # CSV_HEADERS
             THEN [raised |-> TRUE, file |-> file]
             ELSE [raised |-> FALSE,
                   file |-> LogFile(file.rows
                                    \o (IF existing_headers = <<>> THEN <<CSV_HEADERS>> ELSE <<>>)
                                    \o [k \in 1..Len(lines) |-> writerow(lines[k])])]

\* main lines 180-198; detected is what net_utils.get_default_gateway_ip
\* returns ("" for None or an exception).  "" stands for None in the kind.
_resolve_hostname(svc_hostname, tags, override, detected) ==
    IF svc_hostname # "" THEN <<svc_hostname, "">>
    ELSE IF "gateway" \in tags
         THEN IF override # "" THEN <<override, "">>
              ELSE IF detected # "" THEN <<detected, "">>
              ELSE <<"", CONFIG_MISSING_GATEWAY>>
         ELSE <<"", CONFIG_MISSING_HOSTNAME>>

\* What one probe block of the loop adds: rows to the list and calls to
\* the probe
Nothing == [rows |-> <<>>, calls |-> <<>>]
Call(probe_type, svc, target) ==
    [probe_type |-> probe_type, service_name |-> svc.name, target |-> target]

\* The ping block leaving out a probe it cannot run
ping_block_Skips(svc, hostname, missing_kind, r) ==
    IF ~svc.ping \/ hostname = "" THEN Nothing
    ELSE [rows |-> <<make_row(svc.name, hostname, svc.url, "ping", r.ok, r.error_kind)>>,
          calls |-> <<Call("ping", svc, hostname)>>]

\* main lines 242-289
ping_block(svc, hostname, missing_kind, r) ==
    IF ~svc.ping THEN Nothing
    ELSE IF hostname = ""
         THEN [rows |-> <<make_row(svc.name, "", svc.url, "ping", FALSE,
                                   IF missing_kind # "" THEN missing_kind
                                   ELSE CONFIG_MISSING_HOSTNAME)>>,
               calls |-> <<>>]
         ELSE [rows |-> <<make_row(svc.name, hostname, svc.url, "ping", r.ok, r.error_kind)>>,
               calls |-> <<Call("ping", svc, hostname)>>]

\* main lines 291-328
dns_block(svc, hostname, missing_kind, r) ==
    IF ~svc.dns THEN Nothing
    ELSE IF hostname = ""
         THEN [rows |-> <<make_row(svc.name, "", svc.url, "dns", FALSE,
                                   IF missing_kind # "" THEN missing_kind
                                   ELSE CONFIG_MISSING_HOSTNAME)>>,
               calls |-> <<>>]
         ELSE [rows |-> <<make_row(svc.name, hostname, svc.url, "dns", r.ok, r.error_kind)>>,
               calls |-> <<Call("dns", svc, hostname)>>]

\* main lines 330-369
http_block(svc, hostname, r) ==
    IF ~svc.http THEN Nothing
    ELSE IF svc.url = ""
         THEN [rows |-> <<make_row(svc.name, hostname, "", "http", FALSE, CONFIG_MISSING_URL)>>,
               calls |-> <<>>]
         ELSE [rows |-> <<make_row(svc.name, hostname, svc.url, "http", r.ok, r.error_kind)>>,
               calls |-> <<Call("http", svc, svc.url)>>]

\* What a probe can report
ProbeResults(probe_type) ==
    {[ok |-> TRUE, error_kind |-> "ok"],
     [ok |-> FALSE, error_kind |-> CASE probe_type = "ping" -> "ping_timeout"
                                     [] probe_type = "dns" -> "dns_timeout"
                                     [] probe_type = "http" -> "http_timeout"]}

\* What net_utils.get_default_gateway_ip can find
DetectedGateways == {"", "192.168.1.1"}

\* main lines 235-369: one pass of the for loop
RunService ==
    /\ pc = "run"
    /\ run_pos <= Len(run_services)
    /\ \E detected \in DetectedGateways, rp \in ProbeResults("ping"),
          rd \in ProbeResults("dns"), rh \in ProbeResults("http") :
          LET svc == run_services[run_pos]
              resolved == _resolve_hostname(svc.hostname, svc.tags, gateway_override, detected)
              hostname == resolved[1]
              missing_kind == resolved[2]
              p == ping_block(svc, hostname, missing_kind, rp)
              d == dns_block(svc, hostname, missing_kind, rd)
              h == http_block(svc, hostname, rh)
          IN  /\ run_rows' = run_rows \o p.rows \o d.rows \o h.rows
              /\ probe_calls' = probe_calls \o p.calls \o d.calls \o h.calls
    /\ run_pos' = run_pos + 1
    /\ UNCHANGED <<pc, run_services, gateway_override, log_file, summary>>
    /\ UNCHANGED <<in_file, df, buildVars, windows, statVars, mergeVars, intervals,
                   out_file, error, scoreVars, gwVars, downVars>>

\* The rows of a list that failed
Failures(lines) == {k \in 1..Len(lines) : lines[k].success = "False"}

\* main lines 371-379: the log is appended to and the summary returned,
\* or append_rows raises
RunAppend ==
    /\ pc = "run"
    /\ run_pos > Len(run_services)
    /\ LET res == append_rows(log_file, run_rows)
       IN  IF res.raised
           THEN /\ error' = Raised("ValueError", "append_rows", {})
                /\ pc' = "raised"
                /\ UNCHANGED <<log_file, summary>>
           ELSE /\ log_file' = res.file
                /\ summary' = [total_rows |-> Len(run_rows),
                               failures |-> Cardinality(Failures(run_rows))]
                /\ pc' = "returned"
                /\ UNCHANGED error
    /\ UNCHANGED <<run_services, gateway_override, probe_calls, run_pos, run_rows>>
    /\ UNCHANGED <<in_file, df, buildVars, windows, statVars, mergeVars, intervals,
                   out_file, scoreVars, gwVars, downVars>>

\* The most services of a round
MaxServices == 2

ServiceNames == <<"svc1", "svc2", "svc3", "svc4">>

ServiceConfigs ==
    [hostname : {"", "example.org"}, tags : {{}, {"gateway"}},
     url : {"", "https://example.org/"}, ping : BOOLEAN, dns : BOOLEAN, http : BOOLEAN]

ServiceLists ==
    UNION {{[k \in 1..n |-> [name |-> ServiceNames[k]] @@ f[k]] : f \in [1..n -> ServiceConfigs]} :
              n \in 0..MaxServices}

\* A row an earlier round left in the log
EarlierRow == make_row("svc1", "example.org", "", "ping", TRUE, "ok")

LogFiles ==
    {NoLog, LogFile(<<CSV_HEADERS, writerow(EarlierRow)>>), LogFile(<<OLD_HEADERS>>)}

InitRun ==
    /\ run_services \in ServiceLists
    /\ gateway_override \in {"", "192.168.1.254"}
    /\ log_file \in LogFiles
    /\ probe_calls = <<>>
    /\ run_pos = 1
    /\ run_rows = <<>>
    /\ summary = Idle
    /\ pc = "run"
    /\ DetectIdle
    /\ ScoreIdle
    /\ GwIdle
    /\ DownIdle

NextRun == RunService \/ RunAppend

SpecRun == InitRun /\ [][NextRun]_vars

\* csv_log lines 90-130, called on its own with the list run_rows
AppendRows ==
    /\ pc = "append"
    /\ LET res == append_rows(log_file, run_rows)
       IN  IF res.raised
           THEN /\ error' = Raised("ValueError", "append_rows", {})
                /\ pc' = "raised"
                /\ UNCHANGED log_file
           ELSE /\ log_file' = res.file
                /\ pc' = "appended"
                /\ UNCHANGED error
    /\ UNCHANGED <<run_services, gateway_override, probe_calls, run_pos, run_rows, summary>>
    /\ UNCHANGED <<in_file, df, buildVars, windows, statVars, mergeVars, intervals,
                   out_file, scoreVars, gwVars, downVars>>

\* Rows handed to append_rows
NewRows ==
    {make_row("svc1", "example.org", "", "ping", ok, IF ok THEN "ok" ELSE "ping_timeout") :
        ok \in BOOLEAN}
    \cup {make_row("svc2", "", "", "dns", FALSE, CONFIG_MISSING_HOSTNAME),
          make_row("svc2", "", "https://example.org/", "http", TRUE, "ok")}

RowLists ==
    {<<>>} \cup {<<a>> : a \in NewRows} \cup {<<a, b>> : a \in NewRows, b \in NewRows}

\* Logs append_rows may find: none, an empty file, logs with the header,
\* logs of another schema, and files whose first line is blank
AppendFiles ==
    {NoLog, LogFile(<<>>),
     LogFile(<<CSV_HEADERS>>), LogFile(<<CSV_HEADERS, writerow(EarlierRow)>>),
     LogFile(<<OLD_HEADERS>>), LogFile(<<OLD_HEADERS, <<"svc1", "example.org", "", "ping", "True">>>>),
     LogFile(<<<<>>>>), LogFile(<<<<>>, OLD_HEADERS>>), LogFile(<<<<>>, CSV_HEADERS>>)}

InitAppend ==
    /\ log_file \in AppendFiles
    /\ run_rows \in RowLists
    /\ run_services = <<>>
    /\ gateway_override = ""
    /\ probe_calls = <<>>
    /\ run_pos = 0
    /\ summary = Idle
    /\ pc = "append"
    /\ DetectIdle
    /\ ScoreIdle
    /\ GwIdle
    /\ DownIdle

SpecAppend == InitAppend /\ [][AppendRows]_vars

\* ============================================================================
\* src/main.py persist_gateway, called with targets_module=None.
\* A JSON object is a record of its two keys with a flag for each key's
\* presence; null stands for JSON null and Python's None.
\* ============================================================================
null == "null"

\* Python's truth of a string or None
Truthy(x) == x # null /\ x # ""

\* The dict {} that data starts as
EmptyDict == [has_gw |-> FALSE, GATEWAY_HOSTNAME |-> null, has_services |-> FALSE, SERVICES |-> <<>>]

\* data.get("GATEWAY_HOSTNAME")
GetGateway(data) == IF data.has_gw THEN data.GATEWAY_HOSTNAME ELSE null

\* A targets file: absent, not a JSON object, or the object data
TargetsFile(data) == [exists |-> TRUE, valid |-> TRUE, data |-> data]
NoTargets == [exists |-> FALSE, valid |-> FALSE, data |-> EmptyDict]
BadTargets == [exists |-> TRUE, valid |-> FALSE, data |-> EmptyDict]

\* Lines 62-70
LoadTargets(file) == IF file.exists /\ file.valid THEN file.data ELSE EmptyDict

\* FillService overriding the hostname a gateway-tagged service has
FillService_Overrides(svc, desired_gw) ==
    IF "gateway" \in svc.tags
    THEN [svc EXCEPT !.hostname = IF desired_gw # null THEN desired_gw ELSE ""]
    ELSE svc

\* Lines 102-109 for one service
FillService(svc, desired_gw) ==
    IF "gateway" \in svc.tags /\ ~Truthy(svc.hostname)
    THEN [svc EXCEPT !.hostname = IF desired_gw # null THEN desired_gw ELSE ""]
    ELSE svc

\* Lines 95-109: data after the gateway is set and the services filled
WithGateway(data, gateway_ip) ==
    LET desired_gw == IF Truthy(gateway_ip) THEN gateway_ip ELSE null
        set == IF GetGateway(data) # desired_gw
               THEN [data EXCEPT !.has_gw = TRUE, !.GATEWAY_HOSTNAME = desired_gw]
               ELSE data
    IN  IF data.has_services
        THEN [set EXCEPT !.SERVICES =
                 [k \in 1..Len(data.SERVICES) |-> FillService(data.SERVICES[k], desired_gw)]]
        ELSE set

\* The gateway_ip arguments tried
GatewayIps == {null, "", "10.0.0.1", "10.0.0.2"}

\* Lines 84-92, 115-123, 129-137 and 162-170: the module after it is
\* synchronised with the gateway gw
SyncModule(module, gw) ==
    [GATEWAY_HOSTNAME |-> gw,
     SERVICES |-> [k \in 1..Len(module.SERVICES) |-> FillService(module.SERVICES[k], gw)]]

\* Lines 33-176.  The write of lines 140-157 replaces the file in one step
\* or fails and leaves it; gw_call.with_module says whether targets_module
\* was passed.
PersistGateway ==
    /\ pc = "persist"
    /\ LET data == LoadTargets(targets_file)
           existing_gw == GetGateway(data)
           changed == WithGateway(data, gw_call.gateway_ip)
           synced(gw) == IF gw_call.with_module
                         THEN targets_module' = SyncModule(targets_module, gw)
                         ELSE UNCHANGED targets_module
       IN  /\ original' = data
           /\ IF /\ Truthy(existing_gw)
                 /\ ~gw_call.overwrite
                 /\ gw_call.gateway_ip # null
                 /\ existing_gw # gw_call.gateway_ip
              THEN gw_ret' = TRUE /\ UNCHANGED targets_file /\ synced(existing_gw)
              ELSE IF changed = data
                   THEN gw_ret' = TRUE /\ UNCHANGED targets_file /\ synced(GetGateway(changed))
                   ELSE IF ~gw_call.write_file
                        THEN /\ gw_ret' = TRUE
                             /\ UNCHANGED targets_file
                             /\ synced(GetGateway(changed))
                        ELSE \/ /\ gw_ret' = TRUE
                                /\ targets_file' = TargetsFile(changed)
                                /\ synced(GetGateway(changed))
                             \/ /\ gw_ret' = FALSE
                                /\ UNCHANGED <<targets_file, targets_module>>
    /\ pc' = "returned"
    /\ UNCHANGED gw_call
    /\ UNCHANGED <<in_file, df, buildVars, windows, statVars, mergeVars, intervals,
                   out_file, error, scoreVars, runVars, downVars>>

\* The caller calls persist_gateway again, with any arguments
CallAgain ==
    /\ pc = "returned"
    /\ gw_call' \in [gateway_ip : GatewayIps, overwrite : BOOLEAN, write_file : BOOLEAN,
                      with_module : BOOLEAN]
    /\ original' = Idle
    /\ gw_ret' = Idle
    /\ pc' = "persist"
    /\ UNCHANGED <<targets_file, targets_module>>
    /\ UNCHANGED <<in_file, df, buildVars, windows, statVars, mergeVars, intervals,
                   out_file, error, scoreVars, runVars, downVars>>

TargetServices == [hostname : {"", "10.0.0.1"}, tags : {{}, {"gateway"}}]

TargetsFiles ==
    {NoTargets, BadTargets}
    \cup {TargetsFile([has_gw |-> FALSE, GATEWAY_HOSTNAME |-> null, has_services |-> FALSE,
                        SERVICES |-> <<>>])}
    \cup {TargetsFile([has_gw |-> TRUE, GATEWAY_HOSTNAME |-> g, has_services |-> FALSE,
                        SERVICES |-> <<>>]) : g \in GatewayIps}
    \cup {TargetsFile([has_gw |-> hg, GATEWAY_HOSTNAME |-> IF hg THEN g ELSE null,
                        has_services |-> TRUE, SERVICES |-> l]) :
              hg \in BOOLEAN, g \in GatewayIps,
              l \in {<<>>} \cup {<<a>> : a \in TargetServices}
                     \cup {<<a, b>> : a \in TargetServices, b \in TargetServices}}

InitPersist ==
    /\ gw_call \in [gateway_ip : GatewayIps, overwrite : BOOLEAN, write_file : BOOLEAN,
                     with_module : {FALSE}]
    /\ targets_module = NoModule
    /\ targets_file \in TargetsFiles
    /\ original = Idle
    /\ gw_ret = Idle
    /\ pc = "persist"
    /\ DetectIdle
    /\ ScoreIdle
    /\ RunIdle
    /\ DownIdle

SpecPersist == InitPersist /\ [][PersistGateway]_vars

\* Services of a file or module: one that waits for the gateway, one with
\* a hostname of its own, with and without the gateway tag
ServiceLists2 ==
    {<<>>} \cup {<<a>> : a \in TargetServices}
    \cup {<<a, b>> : a \in {[hostname |-> "", tags |-> {"gateway"}]}, b \in TargetServices}

TargetsModules == [GATEWAY_HOSTNAME : {null, "10.0.0.1"}, SERVICES : ServiceLists2]

SeqFiles ==
    {NoTargets, BadTargets}
    \cup {TargetsFile([has_gw |-> TRUE, GATEWAY_HOSTNAME |-> g, has_services |-> TRUE,
                        SERVICES |-> l]) : g \in {null, "10.0.0.1"}, l \in ServiceLists2}

InitPersistSeq ==
    /\ gw_call \in [gateway_ip : GatewayIps, overwrite : BOOLEAN, write_file : BOOLEAN,
                     with_module : BOOLEAN]
    /\ targets_module \in TargetsModules
    /\ targets_file \in SeqFiles
    /\ original = Idle
    /\ gw_ret = Idle
    /\ pc = "persist"
    /\ DetectIdle
    /\ ScoreIdle
    /\ RunIdle
    /\ DownIdle

NextPersistSeq == PersistGateway \/ CallAgain

SpecPersistSeq == InitPersistSeq /\ [][NextPersistSeq]_vars

\* ============================================================================
\* scripts/detect_downtime.py detect_downtimes_for_service: the ping rows of
\* one service, in the order of timestamp load_log leaves them in, scanned
\* for runs of failures.  Timestamps are whole seconds.
\* ============================================================================
MIN_CONSEC_FAILURES == 3
MAX_GAP_SECONDS == 90

\* Lines 100-109: the event of the open run
Event(start, end, count) ==
    [start_time |-> start, end_time |-> end, duration_seconds |-> end - start,
     num_failures |-> count]

\* The gap test with the bound left out
SameEvent_Below(gap) == gap < MAX_GAP_SECONDS

\* Line 94
SameEvent(gap) == gap <= MAX_GAP_SECONDS

\* Lines 82-131: one pass of the for loop
DowntimeRow ==
    /\ pc = "scan"
    /\ row_pos <= Len(svc_df)
    /\ LET ts == svc_df[row_pos].timestamp
           ok == svc_df[row_pos].success = 1
       IN  IF ~ok
           THEN IF current_start = NoTs
                THEN /\ current_start' = ts
                     /\ last_failure_ts' = ts
                     /\ fail_count' = 1
                     /\ UNCHANGED events
                ELSE LET gap == IF last_failure_ts # NoTs THEN ts - last_failure_ts ELSE 0
                     IN  IF SameEvent(gap)
                         THEN /\ fail_count' = fail_count + 1
                              /\ last_failure_ts' = ts
                              /\ UNCHANGED <<current_start, events>>
                         ELSE /\ events' =
                                    IF fail_count >= MIN_CONSEC_FAILURES /\ last_failure_ts # NoTs
                                    THEN Append(events,
                                                Event(current_start, last_failure_ts, fail_count))
                                    ELSE events
                              /\ current_start' = ts
                              /\ last_failure_ts' = ts
                              /\ fail_count' = 1
           ELSE /\ events' =
                      IF /\ current_start # NoTs /\ last_failure_ts # NoTs
                         /\ fail_count >= MIN_CONSEC_FAILURES
                      THEN Append(events, Event(current_start, last_failure_ts, fail_count))
                      ELSE events
                /\ current_start' = NoTs
                /\ last_failure_ts' = NoTs
                /\ fail_count' = 0
    /\ row_pos' = row_pos + 1
    /\ UNCHANGED <<pc, svc_df>>
    /\ UNCHANGED <<in_file, df, buildVars, windows, statVars, mergeVars, intervals,
                   out_file, error, scoreVars, runVars, gwVars>>

\* Lines 133-146: the close at the end of the rows, and the return
DowntimeClose ==
    /\ pc = "scan"
    /\ row_pos > Len(svc_df)
    /\ events' =
          IF /\ current_start # NoTs /\ last_failure_ts # NoTs
             /\ fail_count >= MIN_CONSEC_FAILURES
          THEN Append(events, Event(current_start, last_failure_ts, fail_count))
          ELSE events
    /\ pc' = "detected"
    /\ UNCHANGED <<svc_df, row_pos, current_start, last_failure_ts, fail_count>>
    /\ UNCHANGED <<in_file, df, buildVars, windows, statVars, mergeVars, intervals,
                   out_file, error, scoreVars, runVars, gwVars>>

\* The most ping rows of the service
MaxPings == 6

\* Seconds between one ping row and the next
Gaps == {90, 91}

RECURSIVE Stamped(_, _, _)
\* The rows with the gaps and outcomes of the list steps after the time t
Stamped(steps, k, t) ==
    IF k > Len(steps) THEN <<>>
    ELSE <<[timestamp |-> t + steps[k].gap, success |-> steps[k].success]>>
         \o Stamped(steps, k + 1, t + steps[k].gap)

PingLogs ==
    UNION {{Stamped(steps, 1, 0) : steps \in [1..n -> [gap : Gaps, success : {0, 1}]]} :
              n \in 0..MaxPings}

InitDowntime ==
    /\ svc_df \in PingLogs
    /\ row_pos = 1
    /\ current_start = NoTs
    /\ last_failure_ts = NoTs
    /\ fail_count = 0
    /\ events = <<>>
    /\ pc = "scan"
    /\ DetectIdle
    /\ ScoreIdle
    /\ RunIdle
    /\ GwIdle

NextDowntime == DowntimeRow \/ DowntimeClose

SpecDowntime == InitDowntime /\ [][NextDowntime]_vars

\* ============================================================================
\* src/http_check.py run_http, the row run_once logs from its result and
\* the score quality_score gives that row.  Of the row the model keeps the
\* columns the scorer reads and error_kind.
\* ============================================================================
\* requests.get returns a response with a status code, or raises
Response(code) == [raised |-> "", message |-> "", status_code |-> code]
Raises(exc, message) == [raised |-> exc, message |-> message, status_code |-> 0]

\* status_code of the result: None, or the number of the response
NoStatus == [isna |-> TRUE, isint |-> FALSE, v |-> 0]
Status(code) == [isna |-> FALSE, isint |-> TRUE, v |-> code]

\* run_http taking every status below 500 for a success
run_http_OkBelow500(resp, ms) ==
    [ok |-> resp.raised = "" /\ 200 <= resp.status_code /\ resp.status_code < 500,
     status_code |-> IF resp.raised = "" THEN Status(resp.status_code) ELSE NoStatus,
     http_ms |-> ms,
     error_kind |-> IF resp.raised = "" THEN "ok" ELSE "http_other_error"]

\* Lines 54-149; ms is the time measured around requests.get
run_http(resp, ms) ==
    IF resp.raised = ""
    THEN LET status_code == resp.status_code
         IN  [ok |-> (200 <= status_code /\ status_code < 300)
                     \/ (300 <= status_code /\ status_code < 400),
              status_code |-> Status(status_code),
              http_ms |-> ms,
              error_kind |->
                  IF 200 <= status_code /\ status_code < 300 THEN "ok"
                  ELSE IF 300 <= status_code /\ status_code < 400 THEN "ok"
                  ELSE IF 400 <= status_code /\ status_code < 500 THEN "http_4xx"
                  ELSE IF 500 <= status_code /\ status_code < 600 THEN "http_5xx"
                  ELSE "http_other_status"]
    ELSE [ok |-> FALSE,
          status_code |-> NoStatus,
          http_ms |-> ms,
          error_kind |->
              CASE resp.raised = "Timeout" -> "http_timeout"
                [] resp.raised = "SSLError" -> "http_ssl_error"
                [] resp.raised = "ConnectionError" ->
                       IF resp.message = "connection reset by peer"
                       THEN "http_connection_reset"
                       ELSE IF resp.message \in {"failed to resolve",
                                                 "name or service not known",
                                                 "temporary failure in name resolution"}
                       THEN "http_dns_error"
                       ELSE "http_connection_error"
                [] OTHER -> "http_other_error"]

\* main lines 350-368 with csv_log lines 78-84, and the row as pd.read_csv
\* gives it back: success is the text of bool(r.get("ok")), latency_ms is
\* http_ms, and a status_code of None is written as "" and read as NaN
http_row(r) ==
    [probe_type |-> "http",
     success |-> IF r.ok THEN "True" ELSE "False",
     latency_ms |-> Val(r.http_ms),
     status_code |-> r.status_code,
     error_kind |-> r.error_kind]

HttpStatusCodes == {100, 200, 204, 301, 399, 400, 404, 499, 500, 503, 599, 600}

HttpResponses ==
    {Response(c) : c \in HttpStatusCodes}
    \cup {Raises("Timeout", "timed out"), Raises("SSLError", "certificate verify failed"),
          Raises("ConnectionError", "connection reset by peer"),
          Raises("ConnectionError", "failed to resolve"),
          Raises("ConnectionError", "connection refused"),
          Raises("RequestException", "invalid url"), Raises("Exception", "error")}

\* Times in milliseconds at which the exponential is tabulated
HttpTimes == {0, 30, 150, 300, 600, 1500, 30000}

\* The else branch of run_once's http block for a service with a url: the
\* probe is run and its row logged
HttpProbe ==
    /\ pc = "probe"
    /\ \E resp \in HttpResponses, ms \in HttpTimes :
          probe_row' = http_row(run_http(resp, ms))
    /\ pc' = "score"
    /\ UNCHANGED <<in_file, df, buildVars, windows, statVars, mergeVars, intervals,
                   out_file, error>>
    /\ UNCHANGED <<probe_score, runVars, gwVars, downVars>>

InitCollect ==
    /\ probe_row = Idle
    /\ probe_score = Idle
    /\ pc = "probe"
    /\ DetectIdle
    /\ RunIdle
    /\ GwIdle
    /\ DownIdle

NextCollect == HttpProbe \/ ScoreRow

SpecCollect == InitCollect /\ [][NextCollect]_vars

\* ------------------------------------------------- window table properties
WindowsBuilt == pc \notin {"start", "roll", "resample", "label"}

\* Rows of the sorted input with lo <= timestamp <= hi
RowsBetween(lo, hi) ==
    {j \in 1..Len(df) : lo <= df[j].timestamp /\ df[j].timestamp <= hi}

CountOf(J) == SumSeq([j \in 1..Len(df) |-> IF j \in J THEN df[j].n ELSE 0], Len(df))
ScoreSumOf(J) ==
    SumSeq([j \in 1..Len(df) |-> IF j \in J THEN df[j].n * df[j].score ELSE 0], Len(df))
BadCountOf(J) ==
    SumSeq([j \in 1..Len(df) |-> IF j \in J /\ df[j].is_bad = 1 THEN df[j].n ELSE 0],
           Len(df))

\* Window w holds exactly the aggregates of the rows J
AggregatesOf(w, J) ==
    /\ w.n_samples = CountOf(J)
    /\ CountOf(J) > 0
    /\ w.mean_score = RoundHalfEven(ScoreSumOf(J), CountOf(J))
    /\ w.bad_pct = RoundHalfEven(100 * Cent * BadCountOf(J), CountOf(J))

\* C3 (as claimed): every emitted window aggregates exactly the rows whose
\* timestamp lies in [window_start, window_end].
C3_WindowCoversItsRange ==
    WindowsBuilt =>
        \A k \in 1..Len(windows) :
            AggregatesOf(windows[k],
                         RowsBetween(windows[k].window_start, windows[k].window_end))

\* Rows that can reach the row emitted for the bin that starts at b
RowsNear(b) ==
    {j \in 1..Len(df) : b - WindowSec < df[j].timestamp /\ df[j].timestamp < b + StepSec}

BinLabels == {BinOf(t) : t \in Timestamps}

Flagged == pc \notin {"start", "roll", "resample", "label", "built", "zscore", "flags"}

\* C4: a window is bad exactly when window_score_z <= -K_STD or
\* bad_pct >= BAD_PCT_THRESHOLD, both boundary values included.
C4_BadWindowRule ==
    Flagged =>
        \A k \in 1..Len(windows) :
            windows[k].is_bad_window <=>
                (\/ ZLeq(windows[k].window_score_z, -K_STD)
                 \/ windows[k].bad_pct >= BAD_PCT_THRESHOLD)

\* C4 witness: a window exactly K_STD standard deviations below the mean
\* with fewer than half of its rows bad, and flagged bad.
C4_Witness ==
    /\ Flagged
    /\ \E k \in 1..Len(windows) :
          /\ ZLeq(windows[k].window_score_z, -K_STD)
          /\ ~ZLeq_Strict(windows[k].window_score_z, -K_STD)
          /\ windows[k].bad_pct < BAD_PCT_THRESHOLD
          /\ windows[k].is_bad_window

\* The condition of severity level lv on (z, bad_pct)
SevZ == <<SEV_1_Z, SEV_2_Z, SEV_3_Z>>
SevPct == <<SEV_1_BAD_PCT, SEV_2_BAD_PCT, SEV_3_BAD_PCT>>
LevelMet(lv, z, pct) == ZLeq(z, SevZ[lv]) \/ pct >= SevPct[lv]

\* z1 <= z2 for two values of ZGrid
GridLeq(z1, z2) == z1.d <= z2.d

\* C5: severity_from returns the highest level whose condition is met, 0
\* when none is; a lower z or a higher bad_pct never gives a lower result.
C5_SeverityRule ==
    (pc = "merge") =>
        \A k \in 1..Len(windows) :
            LET z == windows[k].window_score_z
                b == windows[k].bad_pct
                met == {lv \in 1..3 : LevelMet(lv, z, b)}
            IN  /\ windows[k].severity \in 0..3
                /\ met = {} => windows[k].severity = 0
                /\ met # {} => /\ windows[k].severity \in met
                               /\ \A lv \in met : lv <= windows[k].severity
                /\ \A v \in ZGrid, b2 \in PctGrid :
                      (GridLeq(ZOf(v), z) /\ b2 >= b)
                          => severity_from(ZOf(v), b2) >= windows[k].severity

\* C5 witness: both a z condition of level 1 and a percentage condition of
\* level 3 are met, and the result is 3.
C5_Witness ==
    /\ pc = "merge"
    /\ \E k \in 1..Len(windows) :
          /\ LevelMet(1, windows[k].window_score_z, 0)
          /\ ~LevelMet(2, windows[k].window_score_z, 0)
          /\ windows[k].bad_pct >= SEV_3_BAD_PCT
          /\ windows[k].severity = 3

AllMeansEqual ==
    \A k \in 1..Len(windows) : windows[k].mean_score = windows[1].mean_score

\* C8: when every window has the same mean_score, every window_score_z and
\* every interval's mean_score_z is 0 and comes from no division, no window
\* has flag_low_mean, and a window is bad only through bad_pct.
C8_ZeroStd ==
    (Flagged /\ AllMeansEqual) =>
        /\ \A k \in 1..Len(windows) :
              /\ ZIsZero(windows[k].window_score_z)
              /\ ~windows[k].flag_low_mean
              /\ windows[k].is_bad_window => windows[k].bad_pct >= BAD_PCT_THRESHOLD
        /\ pc \in {"write", "done"} =>
              \A k \in 1..Len(intervals) : ZIsZero(intervals[k].mean_score_z.of)

\* C8 witness: equal means, a bad window, and its interval written out.
C8_Witness ==
    /\ pc = "done"
    /\ windows # <<>>
    /\ AllMeansEqual
    /\ Len(windows) >= 2
    /\ Len(intervals) >= 1
    /\ out_file = FileWith(intervals)

\* ----------------------------------------------------------- merge properties
Merged == pc \notin {"start", "roll", "resample", "label", "built", "zscore",
                     "flags", "severity", "merge", "merge_loop"}

\* The bad windows that lie inside the time range of interval itv
MembersOf(itv) ==
    {k \in 1..Len(bad) : /\ bad[k].window_start >= itv.start_time
                         /\ bad[k].window_end <= itv.end_time}

SameIncident(a, b) ==
    \E k \in 1..Len(intervals) : a \in MembersOf(intervals[k]) /\ b \in MembersOf(intervals[k])

NumWindowsRight ==
    \A k \in 1..Len(intervals) :
        intervals[k].num_windows = Cardinality(MembersOf(intervals[k]))

\* C1 (as claimed): bad windows whose window_start differ by more than one
\* step are in separate incidents, those at most one step apart in the same
\* incident, and num_windows counts the merged windows.
C1_SplitByStartGap ==
    Merged =>
        /\ \A a, b \in 1..Len(bad) :
              IF Abs(bad[a].window_start - bad[b].window_start) > StepSec
              THEN ~SameIncident(a, b) ELSE SameIncident(a, b)
        /\ NumWindowsRight

\* C1 (amended): two bad windows that follow each other in window_start
\* order are in the same incident exactly when the later one starts at most
\* one step after the earlier one's window_end; num_windows counts the
\* merged windows.
C1_SplitByEndToStartGap ==
    Merged =>
        /\ \A a \in 1..(Len(bad) - 1) :
              SameIncident(a, a + 1) <=>
                  bad[a + 1].window_start <= bad[a].window_end + StepSec
        /\ \A a \in 1..Len(bad) : SameIncident(a, a)
        /\ NumWindowsRight

\* C1 witness: one incident of two windows whose window_start differ by
\* more than one step, and a second incident.
C1_Witness ==
    /\ Merged
    /\ Len(intervals) = 2
    /\ \E a \in 1..(Len(bad) - 1) :
          /\ SameIncident(a, a + 1)
          /\ bad[a + 1].window_start - bad[a].window_start > StepSec

\* Mean of F over the bad windows M, weighted by n_samples, to two decimals
WeightedMean(M, F) ==
    RoundHalfEven(SumSeq([k \in 1..Len(bad) |-> IF k \in M THEN F[k] * bad[k].n_samples ELSE 0],
                         Len(bad)),
                  SumSeq([k \in 1..Len(bad) |-> IF k \in M THEN bad[k].n_samples ELSE 0],
                         Len(bad)))

\* Plain average of F over the bad windows M, to two decimals
PlainMean(M, F) ==
    RoundHalfEven(SumSeq([k \in 1..Len(bad) |-> IF k \in M THEN F[k] ELSE 0], Len(bad)),
                  Cardinality(M))

MeanScores == [k \in 1..Len(bad) |-> bad[k].mean_score]
BadPcts == [k \in 1..Len(bad) |-> bad[k].bad_pct]

\* C2: an incident's mean_score and bad_pct are the n_samples-weighted means
\* of its member windows' values, rounded to two decimals.
C2_WeightedAggregates ==
    Merged =>
        \A k \in 1..Len(intervals) :
            LET M == MembersOf(intervals[k])
            IN  /\ M # {}
                /\ intervals[k].mean_score = WeightedMean(M, MeanScores)
                /\ intervals[k].bad_pct = WeightedMean(M, BadPcts)
                /\ intervals[k].n_samples =
                       SumSeq([j \in 1..Len(bad) |-> IF j \in M THEN bad[j].n_samples ELSE 0],
                              Len(bad))

\* C2 witness: an incident whose weighted means differ from the plain
\* averages of its members.
C2_Witness ==
    /\ Merged
    /\ \E k \in 1..Len(intervals) :
          LET M == MembersOf(intervals[k])
          IN  /\ Cardinality(M) >= 2
              /\ intervals[k].mean_score # PlainMean(M, MeanScores)
              /\ intervals[k].bad_pct # PlainMean(M, BadPcts)

\* C9: finished incidents lie more than one step apart, the one being built
\* starts more than one step after each of them, and a finished incident
\* is not changed by the windows scanned later.
C9_NeverReopened ==
    /\ [](\A a, b \in 1..Len(intervals) :
             a # b => \/ intervals[b].start_time > intervals[a].end_time + StepSec
                      \/ intervals[a].start_time > intervals[b].end_time + StepSec)
    /\ []((pc = "merge_loop") =>
             \A a \in 1..Len(intervals) :
                 cur.cur_start > intervals[a].end_time + StepSec)
    /\ [][(pc = "merge_loop") =>
             \A a \in 1..Len(intervals) :
                 \E b \in 1..Len(intervals') : intervals'[b] = intervals[a]]_vars

\* C9 witness: an incident is finished and a later window has been scanned.
C9_Witness ==
    /\ pc = "merge_loop"
    /\ Len(intervals) >= 1
    /\ cur.num_windows >= 2

Reasons(M) ==
    [low |-> \E m \in M : bad[m].flag_low_mean,
     high |-> \E m \in M : bad[m].flag_high_bad]

\* C10: reason is "low_mean+high_bad" exactly when some member window has
\* flag_low_mean and some member window has flag_high_bad, "low_mean" when
\* only flag_low_mean occurs and "high_bad" when only flag_high_bad occurs.
C10_ReasonUnion ==
    Merged =>
        \A k \in 1..Len(intervals) :
            LET r == Reasons(MembersOf(intervals[k]))
            IN  /\ (intervals[k].reason = "low_mean+high_bad") <=> (r.low /\ r.high)
                /\ (intervals[k].reason = "low_mean") <=> (r.low /\ ~r.high)
                /\ (intervals[k].reason = "high_bad") <=> (r.high /\ ~r.low)

\* C10 witness: both triggers occur in an incident, but in no single window.
C10_Witness ==
    /\ Merged
    /\ \E k \in 1..Len(intervals) :
          /\ intervals[k].reason = "low_mean+high_bad"
          /\ \A m \in MembersOf(intervals[k]) :
                ~(bad[m].flag_low_mean /\ bad[m].flag_high_bad)

\* ------------------------------------------- attribution, diagnosis properties
Diagnosed == pc = "normalize"

\* The services with at least one bad row whose timestamp lies in
\* [start_time, end_time] of itv
ServicesHit(itv) ==
    {df[j].service_name :
        j \in {i \in 1..Len(df) : /\ df[i].tier = "bad"
                                  /\ df[i].timestamp >= itv.start_time
                                  /\ df[i].timestamp <= itv.end_time}}

\* C11: affected_services_count is the number of distinct services with a
\* bad row in [start_time, end_time], both ends included, and diagnosis is
\* "network_wide" exactly when that number is at least
\* NETWORK_WIDE_MIN_AFFECTED_SERVICES, else "service_specific".
C11_AffectedCount ==
    Diagnosed =>
        \A k \in 1..Len(intervals) :
            LET cnt == Cardinality(ServicesHit(intervals[k]))
            IN  /\ intervals[k].affected_services_count = cnt
                /\ intervals[k].diagnosis =
                       IF cnt >= NETWORK_WIDE_MIN_AFFECTED_SERVICES
                       THEN "network_wide" ELSE "service_specific"

\* C11 witness: exactly NETWORK_WIDE_MIN_AFFECTED_SERVICES services are
\* affected, one of them only through a bad row at end_time itself, while a
\* diagnosis of network_wide was given.
C11_Witness ==
    /\ Diagnosed
    /\ \E k \in 1..Len(intervals) :
          /\ intervals[k].affected_services_count = NETWORK_WIDE_MIN_AFFECTED_SERVICES
          /\ intervals[k].diagnosis = "network_wide"
          /\ \E j \in 1..Len(df) :
                /\ df[j].timestamp = intervals[k].end_time
                /\ df[j].tier = "bad"
                /\ \A i \in 1..Len(df) :
                      (df[i].service_name = df[j].service_name /\ df[i].tier = "bad")
                          => i = j

\* C13 (as claimed): gateway_involved is true exactly when a service named
\* "gateway" is in the interval's top_services_by_bad_pct list.
C13_ExactGatewayName ==
    Diagnosed =>
        \A k \in 1..Len(intervals) :
            intervals[k].gateway_involved <=>
                \E e \in 1..Len(intervals[k].top_services_by_bad_pct) :
                    intervals[k].top_services_by_bad_pct[e].service_name = "gateway"

\* ------------------------------------------------------- scenario properties
\* C12 (as claimed): the scenario yields exactly one incident, of severity
\* at least 2 and with reason "low_mean".
C12_ScenarioLowMean ==
    Merged =>
        /\ Len(intervals) = 1
        /\ intervals[1].severity >= 2
        /\ intervals[1].reason = "low_mean"

\* C12 (amended): the scenario yields exactly one incident, of severity at
\* least 2 and with reason "low_mean+high_bad": samples of score 10 have
\* tier bad, so the windows of the bad period also reach the bad_pct
\* threshold.
C12_ScenarioBothTriggers ==
    Merged =>
        /\ Len(intervals) = 1
        /\ intervals[1].severity >= 2
        /\ intervals[1].reason = "low_mean+high_bad"

\* C12 witness: the run is over, the one incident is in the output file, it
\* has several windows and among them one made of score-10 rows only.
C12_Witness ==
    /\ pc = "done"
    /\ Len(out_file.rows) = 1
    /\ out_file.rows[1].num_windows >= WINDOW_MINUTES
    /\ \E k \in 1..Len(bad) : bad[k].mean_score = 1000 /\ bad[k].bad_pct = 100 * Cent

\* ---------------------------------------------------------- error properties
\* No window was built, or windows were built and none of them is bad
NoBadWindow ==
    \/ WindowsBuilt /\ windows = <<>>
    \/ Flagged /\ \A k \in 1..Len(windows) : ~windows[k].is_bad_window

\* C14 (as claimed): when no window reaches MIN_SAMPLES, or windows exist
\* and none is bad, the run raises nothing and its incident list is empty.
C14_SparseDataNoError ==
    NoBadWindow => (pc # "raised" /\ error = NoError /\ intervals = <<>>)

\* The file lacks a required column, or holds a row whose timestamp is no
\* date-time
SchemaError ==
    /\ in_file.exists
    /\ \/ required \ in_file.columns # {}
       \/ \E k \in 1..Len(in_file.rows) : ~in_file.rows[k].timestamp.iso

\* C15 (as claimed): with a required column missing or a timestamp that
\* cannot be parsed, the run ends with an error that names the offending
\* fields and writes no incident table; it never goes on to build windows
\* from the remaining rows.
C15_SchemaErrorsFatal ==
    (SchemaError /\ pc \notin {"read", "coerce"}) =>
        /\ pc = "raised"
        /\ error.names # {}
        /\ out_file = NoFile

\* ---------------------------------------------------------- output properties
\* The run has not yet opened OUT_PATH
NotOpened == pc \notin {"writing", "done"} /\ error.raised_by # "to_csv"

\* C16 (as claimed): the output file changes in one step from its previous
\* content to the complete new table, so no state shows part of a table,
\* and a write that fails leaves the previous content.
C16_AtomicWrite ==
    /\ [][out_file' # out_file => (NotOpened /\ out_file' = FileWith(intervals'))]_vars
    /\ [](error.raised_by = "to_csv" => out_file \in {NoFile, FileWith(PreviousOutput)})

\* ------------------------------------------------------------ score properties
Scored == pc = "scored"

\* The success cell reads as false or 0
SaysFailed(row) == row.success \in {"False", "false", "0", "no"}

\* C17: the score of every ping, dns and http row lies in [0, 100], and a
\* row whose success flag is false or 0 scores exactly 0 whatever its
\* latency, jitter, loss and status code.
C17_ScoreRange ==
    Scored =>
        /\ 0 <= probe_score /\ probe_score <= FullScore
        /\ SaysFailed(probe_row) => probe_score = 0

\* C17 witness: a failed ping whose measurements alone would score 100 has
\* been scored.
C17_Witness ==
    /\ Scored
    /\ probe_row.probe_type = "ping"
    /\ SaysFailed(probe_row)
    /\ probe_row.latency_ms = Val(0)
    /\ probe_row.jitter_ms = Val(0)
    /\ ScoreOf([probe_row EXCEPT !.success = "True"]) = FullScore

\* The optional measurements the scorer of the row reads
Measurements(row) ==
    DOMAIN row \cap
        CASE row.probe_type = "ping" -> {"latency_ms", "jitter_ms", "packet_loss_pct"}
          [] row.probe_type = "dns" ->
                 IF "dns_ms" \in DOMAIN row THEN {"dns_ms"} ELSE {"latency_ms"}
          [] row.probe_type = "http" ->
                 IF "http_ms" \in DOMAIN row THEN {"http_ms"} ELSE {"latency_ms"}
          [] OTHER -> {}

\* The scale of the exponential applied to a measurement
ScaleOf(row, f) ==
    CASE row.probe_type = "ping" /\ f = "latency_ms" -> 200
      [] row.probe_type = "ping" /\ f = "jitter_ms" -> 20
      [] row.probe_type = "ping" /\ f = "packet_loss_pct" -> 2
      [] row.probe_type = "dns" -> 50
      [] row.probe_type = "http" -> 300

\* C18 (as claimed): a successful row with a measurement missing never
\* scores higher than the same row with an actual value (0 or more) in
\* that measurement.
C18_MissingNeverBetter ==
    (Scored /\ coerce_success(probe_row.success) = 1) =>
        \A f \in Measurements(probe_row) :
            probe_row[f].isna =>
                \A c \in TimeCells(ScaleOf(probe_row, f)) :
                    (notna(c) /\ c.v >= 0) =>
                        probe_score <= ScoreOf([probe_row EXCEPT ![f] = c])

\* ------------------------------------------------------------ run_once properties
RECURSIVE EnabledProbes(_, _)
\* The (service, probe type) pairs of the first n services, in the order of
\* the loop
EnabledProbes(services, n) ==
    IF n = 0 THEN <<>>
    ELSE LET svc == services[n]
         IN  EnabledProbes(services, n - 1)
             \o (IF svc.ping THEN <<<<svc.name, "ping">>>> ELSE <<>>)
             \o (IF svc.dns THEN <<<<svc.name, "dns">>>> ELSE <<>>)
             \o (IF svc.http THEN <<<<svc.name, "http">>>> ELSE <<>>)

\* The service of a name
ServiceNamed(name) ==
    CHOOSE svc \in {run_services[k] : k \in 1..Len(run_services)} : svc.name = name

CallsFor(line) ==
    {k \in 1..Len(probe_calls) :
        /\ probe_calls[k].service_name = line.service_name
        /\ probe_calls[k].probe_type = line.probe_type}

\* csv.DictReader: the row a line of the log stands for
DictRow(line) ==
    [service_name |-> line[1], hostname |-> line[2], url |-> line[3],
     probe_type |-> line[4], success |-> line[5], error_kind |-> line[6]]

\* A row that says the probe could not be configured
ConfigFailure(line) ==
    /\ line.success = "False"
    /\ line.error_kind \in {CONFIG_MISSING_HOSTNAME, CONFIG_MISSING_URL, CONFIG_MISSING_GATEWAY}

\* The row of a probe that lacks what it needs is a failure row and the
\* probe was not called; any other row has exactly one call behind it.  A
\* service with no hostname and no gateway tag has no hostname to probe.
RowAsClaimed(line) ==
    LET svc == ServiceNamed(line.service_name)
        lacks == IF line.probe_type = "http" THEN line.url = "" ELSE line.hostname = ""
    IN  /\ (line.probe_type # "http" /\ svc.hostname = "" /\ "gateway" \notin svc.tags)
               => line.hostname = ""
        /\ line.probe_type = "http" => line.url = svc.url
        /\ IF lacks THEN ConfigFailure(line) /\ CallsFor(line) = {}
                    ELSE Cardinality(CallsFor(line)) = 1 /\ ~ConfigFailure(line)

\* C19: when run_once returns, the log has grown by exactly one row per
\* enabled probe of each service, in the order of the loop, total_rows is
\* that number, and a probe that is enabled but lacks its hostname or url
\* has a failure row with a config_missing_* kind and was never executed.
C19_OneRowPerEnabledProbe ==
    [][pc' = "returned" =>
          LET expected == EnabledProbes(run_services, Len(run_services))
              n == Len(expected)
              before == log_file.rows
              after == log_file'.rows
          IN  /\ \E h \in {<<>>, <<CSV_HEADERS>>} :
                     /\ Len(after) = Len(before) + Len(h) + n
                     /\ SubSeq(after, 1, Len(before) + Len(h)) = before \o h
                     /\ \A k \in 1..n :
                            LET line == DictRow(after[Len(before) + Len(h) + k])
                            IN  /\ <<line.service_name, line.probe_type>> = expected[k]
                                /\ RowAsClaimed(line)
              /\ summary'.total_rows = n
              /\ Len(probe_calls) <= n]_vars

\* C19 witness: a round has returned after logging both an executed probe
\* and a probe it could not configure, after a log that already had a row.
C19_Witness ==
    /\ pc = "returned"
    /\ summary.total_rows = 4
    /\ summary.failures >= 2
    /\ Len(log_file.rows) = 6
    /\ \E k \in 1..Len(run_rows) : run_rows[k].error_kind = CONFIG_MISSING_HOSTNAME
    /\ \E k \in 1..Len(run_rows) : run_rows[k].error_kind = CONFIG_MISSING_URL
    /\ \E k \in 1..Len(run_rows) : run_rows[k].error_kind = CONFIG_MISSING_GATEWAY
    /\ probe_calls # <<>>

\* ------------------------------------------------------------ persist_gateway properties
\* Every gateway-tagged service of the file that had no hostname has gw
FilledWith(gw) ==
    /\ targets_file.data.has_services = original.has_services
    /\ Len(targets_file.data.SERVICES) = Len(original.SERVICES)
    /\ \A k \in 1..Len(original.SERVICES) :
           ("gateway" \in original.SERVICES[k].tags /\ ~Truthy(original.SERVICES[k].hostname))
               => targets_file.data.SERVICES[k].hostname = gw

\* C20 (as claimed): after persist_gateway(gw, targets_file_path=f) with
\* write_file left at its default, a file whose GATEWAY_HOSTNAME was empty
\* or null has GATEWAY_HOSTNAME = gw and gw in every gateway-tagged
\* service whose hostname was empty; and with overwrite=True a file with
\* another GATEWAY_HOSTNAME has gw.
C20_FileHasGateway ==
    (/\ pc = "returned"
     /\ ~gw_call.write_file
     /\ Truthy(gw_call.gateway_ip)
     /\ targets_file.exists /\ targets_file.valid /\ original.has_gw)
    =>
        /\ (~gw_call.overwrite /\ ~Truthy(original.GATEWAY_HOSTNAME))
               => (GetGateway(targets_file.data) = gw_call.gateway_ip
                   /\ FilledWith(gw_call.gateway_ip))
        /\ (gw_call.overwrite /\ Truthy(original.GATEWAY_HOSTNAME))
               => GetGateway(targets_file.data) = gw_call.gateway_ip

\* C21 (as claimed): when the file held a non-empty GATEWAY_HOSTNAME and
\* persist_gateway was called with overwrite=False, the file is as it was,
\* whatever gateway_ip (another address, the same, "" or None) and
\* write_file were.
C21_ExistingGatewayKept ==
    (/\ pc = "returned"
     /\ Truthy(GetGateway(original))
     /\ ~gw_call.overwrite)
    => targets_file = TargetsFile(original)

\* What persist_gateway may do to a list of services: keep every
\* non-empty hostname and every service without the gateway tag, and
\* change nothing but the hostname of a gateway-tagged service that had none
ServicesKept(old, new) ==
    /\ Len(new) = Len(old)
    /\ \A k \in 1..Len(old) :
           /\ new[k].tags = old[k].tags
           /\ Truthy(old[k].hostname) => new[k].hostname = old[k].hostname
           /\ "gateway" \notin old[k].tags => new[k] = old[k]

Written(lines) == [k \in 1..Len(lines) |-> writerow(lines[k])]

\* C23 (as claimed), for a call with at least one row: a file whose first
\* line is not CSV_HEADERS makes append_rows raise ValueError and stays as
\* it was; a missing or empty file gets the header once and then the rows;
\* a file that starts with CSV_HEADERS gets the rows and no other header.
C23_HeaderChecked ==
    [][(pc = "append" /\ run_rows # <<>>) =>
          IF log_file.rows = <<>>
          THEN /\ pc' = "appended"
               /\ log_file' = LogFile(<<CSV_HEADERS>> \o Written(run_rows))
          ELSE IF log_file.rows[1] = CSV_HEADERS
               THEN /\ pc' = "appended"
                    /\ log_file' = LogFile(log_file.rows \o Written(run_rows))
               ELSE /\ pc' = "raised"
                    /\ error'.type = "ValueError"
                    /\ log_file' = log_file]_vars

\* ------------------------------------------------------------ downtime properties
\* Rows a..b are failures with no gap above MAX_GAP_SECONDS between
\* consecutive ones
FailureRun(a, b) ==
    /\ \A k \in a..b : svc_df[k].success = 0
    /\ \A k \in a..(b - 1) : svc_df[k + 1].timestamp - svc_df[k].timestamp <= MAX_GAP_SECONDS

\* The maximal such runs
MaximalRuns ==
    {r \in (1..Len(svc_df)) \X (1..Len(svc_df)) :
        /\ r[1] <= r[2]
        /\ FailureRun(r[1], r[2])
        /\ r[1] > 1 => ~FailureRun(r[1] - 1, r[2])
        /\ r[2] < Len(svc_df) => ~FailureRun(r[1], r[2] + 1)}

LongRuns == {r \in MaximalRuns : r[2] - r[1] + 1 >= MIN_CONSEC_FAILURES}

\* C24: detect_downtimes_for_service returns exactly one event for each
\* maximal run of at least MIN_CONSEC_FAILURES failures with no success
\* and no gap above MAX_GAP_SECONDS inside it, and nothing else; the
\* event runs from the first to the last failure of its run and counts
\* its failures, also for a run that reaches the end of the log.
C24_OneEventPerRun ==
    pc = "detected" =>
        /\ Len(events) = Cardinality(LongRuns)
        /\ \A r \in LongRuns :
               \E k \in 1..Len(events) :
                   events[k] = Event(svc_df[r[1]].timestamp, svc_df[r[2]].timestamp,
                                     r[2] - r[1] + 1)
        /\ \A k \in 1..(Len(events) - 1) : events[k].end_time < events[k + 1].start_time

\* C24 witness: two events have been returned, the first closed by a gap
\* of more than MAX_GAP_SECONDS and the second still open at the last row.
C24_Witness ==
    /\ pc = "detected"
    /\ Len(events) = 2
    /\ Len(svc_df) = 6
    /\ \A k \in 1..6 : svc_df[k].success = 0
    /\ events[1].duration_seconds = 2 * MAX_GAP_SECONDS
    /\ events[2].end_time = svc_df[6].timestamp

\* ------------------------------------------------------------ the scan of merge_bad_windows
\* Interval itv is the open interval c as it stood
Emits(itv, c) ==
    /\ itv.start_time = c.cur_start
    /\ itv.end_time = c.cur_end
    /\ itv.num_windows = c.num_windows

\* C25: at each bad window of the scan, the window joins the open interval
\* exactly when its window_start is at most one step after the interval's
\* end_time, the end becoming the later of the two ends; otherwise the
\* open interval is finished and the window opens a new one; at the end
\* of the scan the open interval is emitted.
C25_MergeStepRule ==
    /\ [][(pc = "merge_loop" /\ loop_i <= Len(bad)) =>
             LET w == bad[loop_i]
             IN  IF w.window_start <= cur.cur_end + StepSec
                 THEN /\ intervals' = intervals
                      /\ cur'.cur_start = cur.cur_start
                      /\ cur'.cur_end = (IF w.window_end > cur.cur_end THEN w.window_end
                                         ELSE cur.cur_end)
                      /\ cur'.num_windows = cur.num_windows + 1
                 ELSE /\ Len(intervals') = Len(intervals) + 1
                      /\ SubSeq(intervals', 1, Len(intervals)) = intervals
                      /\ Emits(intervals'[Len(intervals')], cur)
                      /\ cur'.cur_start = w.window_start
                      /\ cur'.cur_end = w.window_end
                      /\ cur'.num_windows = 1]_vars
    /\ [][(pc = "merge_loop" /\ loop_i > Len(bad)) =>
             /\ Len(intervals') = Len(intervals) + 1
             /\ \E k \in 1..Len(intervals') : Emits(intervals'[k], cur)
             /\ \A a \in 1..Len(intervals) :
                    \E k \in 1..Len(intervals') : intervals'[k] = intervals[a]]_vars

\* C25 witness: the scan has ended after a window joined an interval, a
\* later window opened a new one, and that last interval was emitted.
C25_Witness ==
    /\ pc = "attribute"
    /\ Len(bad) >= 3
    /\ Len(intervals) = 2
    /\ \E k \in 1..2 : intervals[k].num_windows >= 2
    /\ \E k \in 1..2 :
          /\ intervals[k].start_time = bad[Len(bad)].window_start
          /\ intervals[k].num_windows = 1

\* ------------------------------------------------------------ the incidents as a partition
\* The windows of the table that are bad
BadWindows == {k \in 1..Len(windows) : windows[k].is_bad_window}

\* The incidents whose time range holds the bad window w
IncidentsOf(w) ==
    {k \in 1..Len(intervals) :
        /\ w.window_start >= intervals[k].start_time
        /\ w.window_end <= intervals[k].end_time}

\* C26: after the merge every bad window lies in exactly one incident,
\* the incidents' num_windows add up to the number of bad windows and
\* their n_samples to the bad windows' n_samples, so that no window that
\* is not bad is counted in any incident.
C26_Partition ==
    Merged =>
        /\ \A k \in BadWindows : Cardinality(IncidentsOf(windows[k])) = 1
        /\ SumSeq([k \in 1..Len(intervals) |-> intervals[k].num_windows], Len(intervals))
               = Cardinality(BadWindows)
        /\ SumSeq([k \in 1..Len(intervals) |-> intervals[k].n_samples], Len(intervals))
               = SumSeq([k \in 1..Len(windows) |->
                           IF k \in BadWindows THEN windows[k].n_samples ELSE 0], Len(windows))
        /\ \A k \in 1..Len(intervals) :
               intervals[k].num_windows
                   = Cardinality({w \in BadWindows : k \in IncidentsOf(windows[w])})

\* C26 witness: a window that is not bad lies inside the time range of an
\* incident made of the bad windows on both sides of it.
C26_Witness ==
    /\ Merged
    /\ \E k \in 1..Len(intervals), w \in 1..Len(windows) :
          /\ ~windows[w].is_bad_window
          /\ windows[w].window_start >= intervals[k].start_time
          /\ windows[w].window_end <= intervals[k].end_time
          /\ intervals[k].num_windows = 2

\* ------------------------------------------------------------ severity of bad windows and incidents
\* The windows have their flags and severity
Classed == pc \in {"merge", "merge_loop", "attribute"}

\* C27: with the thresholds as they are set, a window is bad exactly when
\* its severity is at least 1; every incident has severity 1, 2 or 3, the
\* largest severity among its member windows.
C27_BadIffSevere ==
    /\ K_STD = -SEV_1_Z /\ BAD_PCT_THRESHOLD = SEV_1_BAD_PCT
    /\ Classed => \A k \in 1..Len(windows) :
                      windows[k].is_bad_window <=> windows[k].severity >= 1
    /\ Merged => \A k \in 1..Len(intervals) :
                     LET M == MembersOf(intervals[k])
                     IN  /\ intervals[k].severity \in 1..3
                         /\ M # {}
                         /\ \E m \in M : bad[m].severity = intervals[k].severity
                         /\ \A m \in M : bad[m].severity <= intervals[k].severity

\* C27 witness: an incident of severity 3 that also has a member window
\* of severity 1, next to a window of severity 0 that is in no incident.
C27_Witness ==
    /\ Merged
    /\ \E k \in 1..Len(intervals) :
          /\ intervals[k].severity = 3
          /\ \E m \in MembersOf(intervals[k]) : bad[m].severity = 1
    /\ \E w \in 1..Len(windows) : windows[w].severity = 0 /\ ~windows[w].is_bad_window

\* ------------------------------------------------------------ a run without windows
\* C28: a run whose window table is empty ends right after the table is
\* built and never changes the output file, so the table an earlier run
\* wrote is still there.
C28_NoWindowNoWrite ==
    /\ [][windows' = <<>> => out_file' = out_file]_vars
    /\ [][(pc = "built" /\ windows = <<>>) => pc' = "done"]_vars
    /\ []((pc = "done" /\ windows = <<>>) => out_file \in {NoFile, FileWith(PreviousOutput)})

\* C28 witness: a run over rows too few for any window has ended and the
\* earlier run's table is in the output file.
C28_Witness ==
    /\ pc = "done"
    /\ windows = <<>>
    /\ df # <<>>
    /\ out_file = FileWith(PreviousOutput)

\* ------------------------------------------------------------ the order of the incident table
Ranked(t) ==
    \A k \in 1..(Len(t) - 1) :
        \/ t[k].severity > t[k + 1].severity
        \/ /\ t[k].severity = t[k + 1].severity
           /\ t[k].duration_seconds >= t[k + 1].duration_seconds

\* every row of the incident table stays where it was
SamePlaces ==
    /\ Len(intervals') = Len(intervals)
    /\ \A k \in 1..Len(intervals) :
          /\ intervals'[k].start_time = intervals[k].start_time
          /\ intervals'[k].severity = intervals[k].severity
          /\ intervals'[k].duration_seconds = intervals[k].duration_seconds

ErrorStatus(row) ==
    /\ notna(row.status_code)
    /\ 400 <= row.status_code.v
    /\ row.status_code.v < 600

\* C30: an HTTP row logged from a run_http result with a 4xx or 5xx status
\* code has success False, so score_http_row returns at its first test and
\* the row's score is exactly 0; no such row reaches the multipliers.
C30_ErrorStatusScoresZero ==
    /\ (pc \in {"score", "scored"} /\ ErrorStatus(probe_row)) =>
           /\ probe_row.success = "False"
           /\ coerce_success(probe_row.success) = 0
    /\ (pc = "scored" /\ ErrorStatus(probe_row)) => probe_score = 0

\* C30 witness: a 404 or a 503 answered at once, logged and scored 0.
C30_Witness ==
    /\ pc = "scored"
    /\ probe_row.status_code.v \in {404, 503}
    /\ probe_row.latency_ms = Val(0)
    /\ probe_row.error_kind \in {"http_4xx", "http_5xx"}
    /\ probe_score = 0

====
